---- MODULE Spec2Model ----
(***************************************************************************)
(* A model of sandwine: the bwrap argv compiler (create_bwrap_argv), the   *)
(* nested X11 display contexts, the orchestrator (main), the display       *)
(* number allocator and the PTY relay.                                     *)
(*                                                                         *)
(* Strings are sequences of one-character strings, so that Python's        *)
(* startswith, rstrip, rsplit, split and the sort by code point are        *)
(* computed rather than assumed.  A fixed word of the argv ("--tmpfs",     *)
(* "bwrap", a shell script) is a one-element sequence holding the word.    *)
(***************************************************************************)
EXTENDS Integers, Sequences, FiniteSets, TLC

\* ------------------------------------------------------------------ bounds

MaxDisplay == 3       \* the allocator is tried with sockets among X0..XMaxDisplay
MaxMinimum == 5       \* the allocator's minimum ranges over 0..MaxMinimum
MaxExitStatus == 1    \* bwrap ends with an exit status in 0..MaxExitStatus

\* --------------------------------------------------------------- strings

\* The code points of the characters the model's strings are made of.
Ascii ==
  ("-" :> 45) @@ ("." :> 46) @@ ("/" :> 47) @@ ("0" :> 48) @@ ("1" :> 49) @@
  ("2" :> 50) @@ ("3" :> 51) @@ ("4" :> 52) @@ ("5" :> 53) @@ ("6" :> 54) @@
  ("7" :> 55) @@ ("8" :> 56) @@ ("9" :> 57) @@ (":" :> 58) @@ ("A" :> 65) @@
  ("B" :> 66) @@ ("C" :> 67) @@ ("D" :> 68) @@ ("E" :> 69) @@ ("G" :> 71) @@
  ("H" :> 72) @@ ("I" :> 73) @@ ("L" :> 76) @@ ("M" :> 77) @@ ("N" :> 78) @@
  ("O" :> 79) @@ ("P" :> 80) @@ ("R" :> 82) @@ ("S" :> 83) @@ ("T" :> 84) @@
  ("U" :> 85) @@ ("V" :> 86) @@ ("W" :> 87) @@ ("X" :> 88) @@ ("Y" :> 89) @@
  ("_" :> 95) @@ ("a" :> 97) @@ ("b" :> 98) @@ ("c" :> 99) @@ ("d" :> 100) @@
  ("e" :> 101) @@ ("f" :> 102) @@ ("g" :> 103) @@ ("h" :> 104) @@
  ("i" :> 105) @@ ("k" :> 107) @@ ("l" :> 108) @@ ("m" :> 109) @@
  ("n" :> 110) @@ ("o" :> 111) @@ ("p" :> 112) @@ ("r" :> 114) @@
  ("s" :> 115) @@ ("t" :> 116) @@ ("u" :> 117) @@ ("v" :> 118) @@
  ("w" :> 119) @@ ("x" :> 120) @@ ("y" :> 121)

Sep == "/"            \* os.sep
PathSep == ":"        \* os.pathsep
None == <<"None">>    \* Python's None where a string is optional

RECURSIVE StrLessFrom(_, _, _)
StrLessFrom(a, b, i) ==
  IF i > Len(a) THEN i <= Len(b)
  ELSE IF i > Len(b) THEN FALSE
  ELSE IF a[i] = b[i] THEN StrLessFrom(a, b, i + 1)
  ELSE Ascii[a[i]] < Ascii[b[i]]

\* a < b for two Python strings: by code point, a proper prefix first.
StrLess(a, b) == StrLessFrom(a, b, 1)

StrLessEq(a, b) == a = b \/ StrLess(a, b)

\* s.startswith(p)
StartsWith(s, p) == Len(p) <= Len(s) /\ SubSeq(s, 1, Len(p)) = p

\* c in s
Contains(s, c) == \E i \in 1..Len(s) : s[i] = c

RECURSIVE RStrip(_, _)
\* s.rstrip(c)
RStrip(s, c) ==
  IF Len(s) > 0 /\ s[Len(s)] = c THEN RStrip(SubSeq(s, 1, Len(s) - 1), c) ELSE s

RECURSIVE SplitFrom(_, _, _, _, _)
SplitFrom(s, c, i, cur, acc) ==
  IF i > Len(s) THEN Append(acc, cur)
  ELSE IF s[i] = c THEN SplitFrom(s, c, i + 1, <<>>, Append(acc, cur))
  ELSE SplitFrom(s, c, i + 1, Append(cur, s[i]), acc)

\* s.split(c): the pieces between the separators, empty pieces included.
Split(s, c) == SplitFrom(s, c, 1, <<>>, <<>>)

RECURSIVE JoinFrom(_, _, _)
JoinFrom(parts, c, i) ==
  IF i > Len(parts) THEN <<>>
  ELSE IF i = Len(parts) THEN parts[i]
  ELSE parts[i] \o <<c>> \o JoinFrom(parts, c, i + 1)

\* c.join(parts)
Join(parts, c) == JoinFrom(parts, c, 1)

\* The index of the last c in s, 0 when there is none.
LastIndexOf(s, c) ==
  IF Contains(s, c)
    THEN CHOOSE i \in 1..Len(s) : s[i] = c /\ \A j \in (i + 1)..Len(s) : s[j] # c
    ELSE 0

Digit == <<"0", "1", "2", "3", "4", "5", "6", "7", "8", "9">>

RECURSIVE IntToStr(_)
\* str(n) for n >= 0, as the f-strings format a display number
IntToStr(n) ==
  IF n < 10 THEN <<Digit[n + 1]>> ELSE IntToStr(n \div 10) \o <<Digit[(n % 10) + 1]>>

DigitValue(c) == (CHOOSE i \in 1..10 : Digit[i] = c) - 1

IsDigits(s) == Len(s) > 0 /\ \A i \in 1..Len(s) : \E d \in 1..10 : Digit[d] = s[i]

RECURSIVE StrToIntFrom(_, _, _)
StrToIntFrom(s, i, acc) ==
  IF i > Len(s) THEN acc ELSE StrToIntFrom(s, i + 1, 10 * acc + DigitValue(s[i]))

\* int(s) for a string of decimal digits
StrToInt(s) == StrToIntFrom(s, 1, 0)

\* ----------------------------------------------------------------- paths

Root == <<"/">>
PBin == <<"/", "b", "i", "n">>
PDev == <<"/", "d", "e", "v">>
PDevDri == <<"/", "d", "e", "v", "/", "d", "r", "i">>
PEtc == <<"/", "e", "t", "c">>
PLib == <<"/", "l", "i", "b">>
PLib32 == <<"/", "l", "i", "b", "3", "2">>
PLib64 == <<"/", "l", "i", "b", "6", "4">>
PProc == <<"/", "p", "r", "o", "c">>
PSys == <<"/", "s", "y", "s">>
PTmp == <<"/", "t", "m", "p">>
PUsr == <<"/", "u", "s", "r">>
POpt == <<"/", "o", "p", "t">>
ResolvConf ==
  <<"/", "r", "u", "n", "/", "N", "e", "t", "w", "o", "r", "k", "M", "a", "n",
    "a", "g", "e", "r", "/", "r", "e", "s", "o", "l", "v", ".", "c", "o", "n", "f">>
PulsePrefix == <<"/", "r", "u", "n", "/", "u", "s", "e", "r", "/">>
PulseSuffix == <<"/", "p", "u", "l", "s", "e", "/", "n", "a", "t", "i", "v", "e">>
UnixColon == <<"u", "n", "i", "x", ":">>
X11SocketPrefix ==
  <<"/", "t", "m", "p", "/", ".", "X", "1", "1", "-", "u", "n", "i", "x", "/", "X">>
ExtExe == <<".", "e", "x", "e">>
ExtEXE == <<".", "E", "X", "E">>
ModeRo == <<"r", "o">>
ModeRw == <<"r", "w">>
VarHOME == <<"H", "O", "M", "E">>
VarTERM == <<"T", "E", "R", "M">>
VarUSER == <<"U", "S", "E", "R">>
VarWINEDEBUG == <<"W", "I", "N", "E", "D", "E", "B", "U", "G">>
VarPULSE == <<"P", "U", "L", "S", "E", "_", "S", "E", "R", "V", "E", "R">>
VarDISPLAY == <<"D", "I", "S", "P", "L", "A", "Y">>
VarPATH == <<"P", "A", "T", "H">>

\* The host the run sees: the user's home (os.path.expanduser('~')), the
\* working directory and the user id.
HomeDir == <<"/", "h", "o", "m", "e", "/", "u">>
Cwd == POpt
Uid == 1000

RECURSIVE NormComponents(_, _, _)
NormComponents(parts, i, acc) ==
  IF i > Len(parts) THEN acc
  ELSE IF parts[i] = <<>> \/ parts[i] = <<".">> THEN NormComponents(parts, i + 1, acc)
  ELSE IF parts[i] = <<".", ".">>
    THEN NormComponents(parts, i + 1,
                        IF acc = <<>> THEN acc ELSE SubSeq(acc, 1, Len(acc) - 1))
  ELSE NormComponents(parts, i + 1, Append(acc, parts[i]))

\* The components of an absolute path: no empty piece, no ".", ".." applied.
Components(p) == NormComponents(Split(p, Sep), 1, <<>>)

\* The absolute path made of the components.
FromComponents(comps) == IF comps = <<>> THEN Root ELSE <<Sep>> \o Join(comps, Sep)

\* os.path.abspath(p)
AbsPath(p) ==
  FromComponents(Components(IF StartsWith(p, <<Sep>>) THEN p ELSE Cwd \o <<Sep>> \o p))

RECURSIVE ResolveLinks(_, _, _)
\* Replace the shortest prefix of comps that is a symbolic link by the link's
\* target, and go on from there (link targets are real paths).
ResolveLinks(comps, k, links) ==
  IF k > Len(comps) THEN comps
  ELSE LET prefix == FromComponents(SubSeq(comps, 1, k)) IN
       IF \E l \in links : l[1] = prefix
         THEN LET l == CHOOSE l \in links : l[1] = prefix
                  to == Components(l[2])
              IN ResolveLinks(to \o SubSeq(comps, k + 1, Len(comps)), Len(to) + 1, links)
         ELSE ResolveLinks(comps, k + 1, links)

\* os.path.realpath(p) on a host with the symbolic links `links`
RealPath(p, links) == FromComponents(ResolveLinks(Components(AbsPath(p)), 1, links))

\* os.path.exists(p): the path, links followed, names a file of the host
PathExists(p, h) == p # <<>> /\ RealPath(p, h.links) \in h.paths

\* A path and the directories above it.
WithParents(p) ==
  LET comps == Components(p)
  IN {FromComponents(SubSeq(comps, 1, k)) : k \in 0..Len(comps)}

\* os.makedirs(p, exist_ok=True)
MakeDirs(p, h) == [h EXCEPT !.paths = @ \cup WithParents(RealPath(p, h.links))]

\* path.rstrip(os.sep) + os.sep
single_trailing_sep(path) == RStrip(path, Sep) \o <<Sep>>

\* The ValueError parse_path_colon_access raises.
ParseError == [ok |-> FALSE, path |-> <<>>, access |-> "none"]

\* A parser that splits at the first colon: candidate.split(':', 1).
parse_at_first_colon(candidate) ==
  IF ~Contains(candidate, ":") THEN ParseError
  ELSE LET i == CHOOSE i \in 1..Len(candidate) :
                  candidate[i] = ":" /\ \A j \in 1..(i - 1) : candidate[j] # ":"
           path == SubSeq(candidate, 1, i - 1)
           access_mode_candidate == SubSeq(candidate, i + 1, Len(candidate))
       IN IF access_mode_candidate = ModeRo
            THEN [ok |-> TRUE, path |-> path, access |-> "READ_ONLY"]
          ELSE IF access_mode_candidate = ModeRw
            THEN [ok |-> TRUE, path |-> path, access |-> "READ_WRITE"]
          ELSE ParseError

parse_path_colon_access(candidate) ==
  IF ~Contains(candidate, ":") THEN ParseError
  ELSE LET i == LastIndexOf(candidate, ":")
           path == SubSeq(candidate, 1, i - 1)
           access_mode_candidate == SubSeq(candidate, i + 1, Len(candidate))
       IN IF access_mode_candidate = ModeRo
            THEN [ok |-> TRUE, path |-> path, access |-> "READ_ONLY"]
          ELSE IF access_mode_candidate = ModeRw
            THEN [ok |-> TRUE, path |-> path, access |-> "READ_WRITE"]
          ELSE ParseError

\* X11Context.get_unix_socket_for / X11Display.get_unix_socket
get_unix_socket_for(display) == X11SocketPrefix \o IntToStr(display)

\* ------------------------------------------------------ create_bwrap_argv

Lit(word) == <<word>>

BindModes == {"BIND_RO", "BIND_RW", "BIND_DEV"}

\* MountTask(mode, target, source=None, required=True)
MountTask(mode, target) ==
  [mode |-> mode, target |-> target, source |-> None, required |-> TRUE]

OptionalTask(mode, target) ==
  [mode |-> mode, target |-> target, source |-> None, required |-> FALSE]

\* The mount mode of an access mode (lines 355-358 and 376-379).
BindModeOf(access) == IF access = "READ_WRITE" THEN "BIND_RW" ELSE "BIND_RO"

my_home(h) == RealPath(HomeDir, h.links)

dotwine_target_path == HomeDir \o <<"/", ".", "w", "i", "n", "e">>

pulseaudio_socket == PulsePrefix \o IntToStr(Uid) \o PulseSuffix

X11Active(cfg) == cfg.x11 # "none"

BaseMountTasks(h) ==
  << MountTask("TMPFS", Root),
     MountTask("BIND_RO", PBin),
     MountTask("DEVTMPFS", PDev),
     MountTask("BIND_DEV", PDevDri),
     MountTask("BIND_RO", PEtc),
     MountTask("BIND_RO", PLib),
     OptionalTask("BIND_RO", PLib32),
     MountTask("BIND_RO", PLib64),
     MountTask("PROC", PProc),
     MountTask("BIND_RO", PSys),
     MountTask("TMPFS", PTmp),
     MountTask("BIND_RO", PUsr),
     MountTask("TMPFS", my_home(h)) >>

NetworkTasks(cfg) ==
  IF cfg.network THEN <<OptionalTask("BIND_RO", ResolvConf)>> ELSE <<>>

SoundTasks(cfg) ==
  IF cfg.pulseaudio THEN <<MountTask("BIND_RW", pulseaudio_socket)>> ELSE <<>>

X11Tasks(cfg) ==
  IF X11Active(cfg)
    THEN <<MountTask("BIND_RW", get_unix_socket_for(cfg.x11_display_number))>>
    ELSE <<>>

DotwineTasks(cfg) ==
  IF cfg.dotwine # None
    THEN LET parsed == parse_path_colon_access(cfg.dotwine)
         IN << [mode |-> BindModeOf(parsed.access), target |-> dotwine_target_path,
                source |-> parsed.path, required |-> TRUE] >>
    ELSE <<MountTask("TMPFS", dotwine_target_path)>>

RECURSIVE ExtraBindTasks(_, _)
ExtraBindTasks(binds, i) ==
  IF i > Len(binds) THEN <<>>
  ELSE LET parsed == parse_path_colon_access(binds[i])
       IN <<MountTask(BindModeOf(parsed.access), parsed.path)>>
            \o ExtraBindTasks(binds, i + 1)

ProgramTasks(cfg, h) ==
  IF cfg.argv_0 # None /\ Contains(cfg.argv_0, Sep)
    THEN LET real_argv_0 == RealPath(cfg.argv_0, h.links)
         IN << OptionalTask("BIND_RO", real_argv_0),
               OptionalTask("BIND_RO", real_argv_0 \o ExtExe),
               OptionalTask("BIND_RO", real_argv_0 \o ExtEXE) >>
    ELSE <<>>

\* mount_tasks as it stands at line 396, in the order the code appends.
MountTasks(cfg, h) ==
  BaseMountTasks(h) \o NetworkTasks(cfg) \o SoundTasks(cfg) \o X11Tasks(cfg)
    \o DotwineTasks(cfg) \o ExtraBindTasks(cfg.extra_binds, 1) \o ProgramTasks(cfg, h)

\* An insertion that puts every task in front.
InsertTaskInFront(sorted, t) == <<t>> \o sorted

RECURSIVE InsertTask(_, _)
\* Insert t behind every task whose target is not greater: the sort is stable.
InsertTask(sorted, t) ==
  IF sorted = <<>> THEN <<t>>
  ELSE IF StrLess(t.target, Head(sorted).target) THEN <<t>> \o sorted
  ELSE <<Head(sorted)>> \o InsertTask(Tail(sorted), t)

RECURSIVE SortTasksFrom(_, _, _)
SortTasksFrom(tasks, i, acc) ==
  IF i > Len(tasks) THEN acc ELSE SortTasksFrom(tasks, i + 1, InsertTask(acc, tasks[i]))

\* mount_tasks left in the order the code appended them.
UnsortedMountTasks(tasks) == tasks

\* sorted(mount_tasks, key=attrgetter('target'))
SortedMountTasks(tasks) == SortTasksFrom(tasks, 1, <<>>)

\* The test without keep_missing_target.
TaskPathMissingWithSocket(t, cfg, h) == ~PathExists(t.target, h)

\* The test of line 414: the task's path is missing and is not the X11 socket.
TaskPathMissing(t, cfg, h) ==
  LET keep_missing_target ==
        X11Active(cfg) /\ t.target = get_unix_socket_for(cfg.x11_display_number)
  IN ~PathExists(t.target, h) /\ ~keep_missing_target

\* A loop that drops every task whose path is missing.
MissingActionDrops(t) == "drop"

\* A loop that aborts on every task whose path is missing.
MissingActionAborts(t) == "abort"

\* What a missing path does to the build (lines 415-422).
MissingAction(t) == IF t.required THEN "abort" ELSE "drop"

\* The argv group of one mount task that is emitted.
MountGroup(t) ==
  LET source == IF t.source = None THEN t.target ELSE t.source
  IN CASE t.mode = "TMPFS" -> <<Lit("--tmpfs"), t.target>>
       [] t.mode = "DEVTMPFS" -> <<Lit("--dev"), t.target>>
       [] t.mode = "PROC" -> <<Lit("--proc"), t.target>>
       [] t.mode = "BIND_RO" -> <<Lit("--ro-bind"), source, t.target>>
       [] t.mode = "BIND_RW" -> <<Lit("--bind"), source, t.target>>
       [] t.mode = "BIND_DEV" -> <<Lit("--dev-bind"), source, t.target>>

RECURSIVE MountStack(_, _, _, _, _)
\* The loop of lines 399-433: the groups added, or the abort of line 418.
MountStack(tasks, i, cfg, h, acc) ==
  IF i > Len(tasks) THEN [status |-> "ok", groups |-> acc]
  ELSE LET t == tasks[i] IN
       IF t.mode \in BindModes /\ TaskPathMissing(t, cfg, h)
         THEN IF MissingAction(t) = "abort"
                THEN [status |-> "exit1", groups |-> acc]
                ELSE MountStack(tasks, i + 1, cfg, h, acc)
         ELSE MountStack(tasks, i + 1, cfg, h, Append(acc, MountGroup(t)))

\* The prefix test without the trailing separators.
TargetContainsPlainPrefix(target, candidate_path) == StartsWith(candidate_path, target)

\* The test of lines 441-442.
TargetContains(target, candidate_path) ==
  StartsWith(single_trailing_sep(candidate_path), single_trailing_sep(target))

RECURSIVE PathAvailableFrom(_, _, _)
\* The inner loop of lines 440-445 from task i downwards: TRUE when it ends
\* in the break, FALSE when it runs out of tasks (the for's else).
PathAvailableFrom(candidate_path, tasks, i) ==
  IF i < 1 THEN FALSE
  ELSE IF TargetContains(tasks[i].target, candidate_path) /\ tasks[i].mode \in BindModes
    THEN TRUE
  ELSE PathAvailableFrom(candidate_path, tasks, i - 1)

PathAvailable(candidate_path, tasks) ==
  PathAvailableFrom(candidate_path, tasks, Len(tasks))

RECURSIVE AvailablePaths(_, _, _, _)
\* available_paths of lines 436-448
AvailablePaths(candidate_paths, i, tasks, h) ==
  IF i > Len(candidate_paths) THEN <<>>
  ELSE LET candidate_path == RealPath(candidate_paths[i], h.links)
       IN (IF PathAvailable(candidate_path, tasks) THEN <<candidate_path>> ELSE <<>>)
            \o AvailablePaths(candidate_paths, i + 1, tasks, h)

\* env_tasks before PATH is set: name and value, None for "take the host's".
EnvTasks(cfg) ==
  << <<VarHOME, None>>, <<VarTERM, None>>, <<VarUSER, None>>, <<VarWINEDEBUG, None>> >>
    \o (IF cfg.pulseaudio THEN << <<VarPULSE, UnixColon \o pulseaudio_socket>> >> ELSE <<>>)
    \o (IF X11Active(cfg)
          THEN << <<VarDISPLAY, <<":">> \o IntToStr(cfg.x11_display_number)>> >>
          ELSE <<>>)

RECURSIVE InsertEnv(_, _)
InsertEnv(sorted, e) ==
  IF sorted = <<>> THEN <<e>>
  ELSE IF StrLess(e[1], Head(sorted)[1]) THEN <<e>> \o sorted
  ELSE <<Head(sorted)>> \o InsertEnv(Tail(sorted), e)

RECURSIVE SortEnvFrom(_, _, _)
SortEnvFrom(items, i, acc) ==
  IF i > Len(items) THEN acc ELSE SortEnvFrom(items, i + 1, InsertEnv(acc, items[i]))

\* env_tasks in the order the code filled it.
UnsortedEnv(items) == items

\* sorted(env_tasks.items(), key=itemgetter(0))
SortedEnv(items) == SortEnvFrom(items, 1, <<>>)

RECURSIVE EnvGroups(_, _, _)
\* The loop of lines 453-458.
EnvGroups(items, i, h) ==
  IF i > Len(items) THEN <<>>
  ELSE LET env_var == items[i][1]
           env_value == IF items[i][2] = None THEN h.env[env_var] ELSE items[i][2]
       IN (IF env_value = None THEN <<>> ELSE << <<Lit("--setenv"), env_var, env_value>> >>)
            \o EnvGroups(items, i + 1, h)

WineserverScript ==
  Lit("wineserver -p0 && \"$0\" \"$@\" ; ret=$? ; wineserver -k ; exit ${ret}")
WinecfgScript == Lit("winecfg && exec \"$0\" \"$@\"")
SecondTryScript == Lit("\"$0\" \"$@\" || exec \"$0\" \"$@\"")

\* The groups behind "--" with the second try wrapped in whatever --retry says.
PayloadGroupsAlwaysRetry(cfg, run_winecfg) ==
  (IF cfg.with_wine THEN << <<Lit("sh"), Lit("-c"), WineserverScript>> >> ELSE <<>>)
    \o (IF run_winecfg /\ cfg.with_wine
          THEN << <<Lit("sh"), Lit("-c"), WinecfgScript>> >> ELSE <<>>)
    \o << <<Lit("sh"), Lit("-c"), SecondTryScript>> >>
    \o (IF cfg.argv_0 # None
          THEN IF cfg.with_wine
                 THEN << <<Lit("wine"), cfg.argv_0>> \o cfg.argv_1_plus >>
                 ELSE << <<cfg.argv_0>> \o cfg.argv_1_plus >>
          ELSE << <<Lit("true")>> >>)

\* The groups behind "--" without the wineserver wrapper.
PayloadGroupsNoWineserver(cfg, run_winecfg) ==
  (IF run_winecfg /\ cfg.with_wine
     THEN << <<Lit("sh"), Lit("-c"), WinecfgScript>> >> ELSE <<>>)
    \o (IF cfg.second_try THEN << <<Lit("sh"), Lit("-c"), SecondTryScript>> >> ELSE <<>>)
    \o (IF cfg.argv_0 # None
          THEN IF cfg.with_wine
                 THEN << <<Lit("wine"), cfg.argv_0>> \o cfg.argv_1_plus >>
                 ELSE << <<cfg.argv_0>> \o cfg.argv_1_plus >>
          ELSE << <<Lit("true")>> >>)

\* The groups behind "--" (lines 462-481).
PayloadGroups(cfg, run_winecfg) ==
  (IF cfg.with_wine THEN << <<Lit("sh"), Lit("-c"), WineserverScript>> >> ELSE <<>>)
    \o (IF run_winecfg /\ cfg.with_wine
          THEN << <<Lit("sh"), Lit("-c"), WinecfgScript>> >> ELSE <<>>)
    \o (IF cfg.second_try THEN << <<Lit("sh"), Lit("-c"), SecondTryScript>> >> ELSE <<>>)
    \o (IF cfg.argv_0 # None
          THEN IF cfg.with_wine
                 THEN << <<Lit("wine"), cfg.argv_0>> \o cfg.argv_1_plus >>
                 ELSE << <<cfg.argv_0>> \o cfg.argv_1_plus >>
          ELSE << <<Lit("true")>> >>)

NoArgv == <<>>

\* Whether every path:mode token of the configuration parses.
DotwineParses(cfg) == cfg.dotwine = None \/ parse_path_colon_access(cfg.dotwine).ok
ExtraBindsParse(cfg) ==
  \A i \in 1..Len(cfg.extra_binds) : parse_path_colon_access(cfg.extra_binds[i]).ok

\* Lines 362-365: the persistent-state directory is created when it is missing.
DotwineCreated(cfg, h) ==
  /\ cfg.dotwine # None
  /\ DotwineParses(cfg)
  /\ ~PathExists(parse_path_colon_access(cfg.dotwine).path, h)

HostAfterDotwine(cfg, h) ==
  IF DotwineCreated(cfg, h)
    THEN MakeDirs(parse_path_colon_access(cfg.dotwine).path, h)
    ELSE h

\* run_winecfg that the creation of the directory does not set.
RunWinecfgIgnoresCreation(cfg, h) ==
  X11Active(cfg) /\ (cfg.configure \/ cfg.dotwine = None)

\* run_winecfg as it stands at line 467.
RunWinecfg(cfg, h) ==
  (X11Active(cfg) /\ (cfg.configure \/ cfg.dotwine = None)) \/ DotwineCreated(cfg, h)

\* unshare_args that share the network whatever the configuration says.
UnshareArgsSharingNet(cfg) == <<Lit("--unshare-all"), Lit("--share-net")>>

\* unshare_args as it stands at line 393.
UnshareArgs(cfg) ==
  <<Lit("--unshare-all")>> \o (IF cfg.network THEN <<Lit("--share-net")>> ELSE <<>>)

\* The argv of a build whose mount stack was compiled (lines 324-327, 393,
\* 435-481).
FinishArgv(cfg, h, h2, sorted_mount_tasks, groups) ==
  LET available_paths ==
        AvailablePaths(Split(h2.env[VarPATH], PathSep), 1, sorted_mount_tasks, h2)
      env_tasks == Append(EnvTasks(cfg), <<VarPATH, Join(available_paths, PathSep)>>)
  IN << <<Lit("bwrap")>>, <<Lit("--new-session")>>,
        UnshareArgs(cfg) >>
       \o groups
       \o << <<Lit("--clearenv")>> >>
       \o EnvGroups(SortedEnv(env_tasks), 1, h2)
       \o << <<Lit("--")>> >>
       \o PayloadGroups(cfg, RunWinecfg(cfg, h))

\* The one element of a one-element set (each value is computed once).
The(S) == CHOOSE x \in S : TRUE

\* create_bwrap_argv from line 373 on, h2 being the host line 364 leaves.
BuildFrom(cfg, h, h2) ==
  IF ~ExtraBindsParse(cfg) THEN [status |-> "ValueError", argv |-> NoArgv, host |-> h2]
  ELSE The({ The({ IF stack.status = "ok"
                     THEN [status |-> "ok",
                           argv |-> FinishArgv(cfg, h, h2, sorted_mount_tasks, stack.groups),
                           host |-> h2]
                     ELSE [status |-> "exit1", argv |-> NoArgv, host |-> h2] :
                   stack \in {MountStack(sorted_mount_tasks, 1, cfg, h2, <<>>)} }) :
             sorted_mount_tasks \in {SortedMountTasks(MountTasks(cfg, h2))} })

\* create_bwrap_argv(config) on host h: how it ends ("ok", "exit1" for
\* sys.exit(1), "ValueError"), the argv groups it returns and the host it leaves.
create_bwrap_argv(cfg, h) ==
  IF ~DotwineParses(cfg) THEN [status |-> "ValueError", argv |-> NoArgv, host |-> h]
  ELSE The({ BuildFrom(cfg, h, h2) : h2 \in {HostAfterDotwine(cfg, h)} })

\* ------------------------------------------------------- display numbers

\* glob.glob('/tmp/.X11-unix/X*') and int(os.path.basename(p)[1:])
used_displays(h) ==
  { StrToInt(SubSeq(p, Len(X11SocketPrefix) + 1, Len(p))) :
      p \in { q \in h.paths : /\ StartsWith(q, X11SocketPrefix)
                              /\ IsDigits(SubSeq(q, Len(X11SocketPrefix) + 1, Len(q))) } }

\* sorted(s)[-1]
LastSorted(s) == CHOOSE n \in s : \A m \in s : m <= n

\* X11Context.find_unused_display()
find_unused_display(h) ==
  LET used == used_displays(h)
      candidate_displays == 0..Cardinality(used)
  IN LastSorted(candidate_displays \ used)

\* An allocator that does not take the used numbers out of the candidates.
find_unused_among_all(h, minimum) ==
  LET used == used_displays(h)
      candidate_displays == (0..Cardinality(used)) \cup {minimum}
  IN LastSorted(candidate_displays)

\* X11Display.find_unused(minimum)
find_unused(h, minimum) ==
  LET used == used_displays(h)
      candidate_displays == (0..Cardinality(used)) \cup {minimum}
  IN LastSorted(candidate_displays \ used)

\* X11Context.get_host_display() / X11Display.find_used()
get_host_display(h) ==
  LET display == h.env[VarDISPLAY]
  IN IF display = None \/ display = <<>> THEN 0
     ELSE IF IsDigits(Tail(display)) THEN StrToInt(Tail(display)) ELSE 0

\* The command of each nested X11 mode.
CommandOf(mode) ==
  CASE mode = "nxagent" -> "nxagent"
    [] mode = "xephyr" -> "Xephyr"
    [] mode = "xnest" -> "Xnest"
    [] mode = "xvfb" -> "Xvfb"
    [] mode = "xpra" -> "xpra"

\* shutil.which(command) is not None
Available(command, h) == command \in h.installed

\* X11Context.detect_nested(): the first mode whose command is installed,
\* "exit127" for the sys.exit(127).
detect_nested(h) ==
  LET tests == <<"nxagent", "xephyr", "xnest", "xvfb">>
      hits == {i \in 1..Len(tests) : Available(CommandOf(tests[i]), h)}
  IN IF hits = {} THEN "exit127" ELSE tests[CHOOSE i \in hits : \A j \in hits : i <= j]

\* detect_and_require_nested_x11()
detect_and_require_nested_x11(h) ==
  LET tests == <<"nxagent", "xephyr", "xnest">>
      hits == {i \in 1..Len(tests) : Available(CommandOf(tests[i]), h)}
  IN IF hits = {} THEN "exit127" ELSE tests[CHOOSE i \in hits : \A j \in hits : i <= j]

\* create_x11_context(mode, ...) and, for the X11Context of _main.py, line 504.
create_x11_context(mode) ==
  CASE mode = "host" -> "nullcontext"
    [] mode \in {"nxagent", "xephyr", "xnest", "xvfb"} -> "_SimpleX11Context"
    [] mode = "xpra" -> "XpraContext"

\* ---------------------------------------------------------------- inputs

PUsrBin == <<"/", "u", "s", "r", "/", "b", "i", "n">>
PUsr2 == <<"/", "u", "s", "r", "2">>
PUsr2Bin == <<"/", "u", "s", "r", "2", "/", "b", "i", "n">>
POptBin == <<"/", "o", "p", "t", "/", "b", "i", "n">>
POptRel == <<"/", "o", "p", "t", "/", "r", "e", "l">>
POptColon == <<"/", "o", "p", "t", ":", "r", "w">>
PSrvW == <<"/", "s", "r", "v", "/", "w">>
PRunExe ==
  <<"/", "o", "p", "t", "/", "a", "p", "p", "/", "r", "u", "n", ".", "e", "x", "e">>
ProgRun == <<"/", "o", "p", "t", "/", "a", "p", "p", "/", "r", "u", "n">>
ProgBare == <<"n", "o", "t", "e", "p", "a", "d", ".", "e", "x", "e">>
TokUsr2Ro == <<"/", "u", "s", "r", "2", ":", "r", "o">>
TokOptRw == <<"/", "o", "p", "t", ":", "r", "w">>
TokRelRw == <<"r", "e", "l", ":", "r", "w">>
TokOptRelRo == <<"/", "o", "p", "t", "/", "r", "e", "l", ":", "r", "o">>
TokHomeRo == <<"/", "h", "o", "m", "e", ":", "r", "o">>
TokNoColon == <<"/", "o", "p", "t">>
TokBadMode == <<"/", "o", "p", "t", ":", "r", "x">>
TokColonPath == <<"/", "o", "p", "t", ":", "r", "w", ":", "r", "o">>
DotwineRw == <<"/", "s", "r", "v", "/", "w", ":", "r", "w">>
DotwineRo == <<"/", "s", "r", "v", "/", "w", ":", "r", "o">>
DotwineBad == <<"/", "s", "r", "v", "/", "w">>
PathA ==
  <<"/", "u", "s", "r", "/", "b", "i", "n", ":", "/", "u", "s", "r", "2", "/", "b", "i",
    "n", ":", "/", "o", "p", "t", "/", "b", "i", "n", ":", "/", "h", "o", "m", "e", "/",
    "u", "/", "b", "i", "n">>
PathB ==
  <<"/", "u", "s", "r", "2", "/", "b", "i", "n", ":", "/", "b", "i", "n", "/", ":", "/",
    "o", "p", "t", "/", "a", "p", "p", ":", "/", "u", "s", "r", "/", "b", "i", "n">>
Display0 == <<":", "0">>
Display1 == <<":", "1">>
UserName == <<"u">>
TermName == <<"x", "t", "e", "r", "m">>

\* The paths every host of the model has.
CorePaths ==
  {Root, PBin, PDev, PDevDri, PEtc, PLib, PProc, PSys, PTmp, PUsr, PUsrBin, POpt, HomeDir}

\* The paths a host may lack.
OptionalPaths ==
  {PLib32, PLib64, ResolvConf, pulseaudio_socket, dotwine_target_path, PUsr2Bin,
   POptRel, POptColon, PSrvW, PRunExe}

\* What the hosts that the mount plans are built on lack, the PATH they set
\* and whether the socket of the host's display :0 exists.
CompileHosts ==
  { <<{}, PathA, {0}>>,
    <<{}, PathB, {}>>,
    <<OptionalPaths \ {PLib64}, PathA, {0}>>,
    <<{PLib64}, PathB, {0}>>,
    <<{PSrvW, PLib32, PRunExe}, PathA, {}>>,
    <<{dotwine_target_path, PSrvW, POptRel}, PathB, {0}>>,
    <<{pulseaudio_socket, ResolvConf, PUsr2Bin}, PathA, {0}>> }

SocketPaths(numbers) == {get_unix_socket_for(n) : n \in numbers}

HostPaths(lack, sockets) ==
  UNION {WithParents(q) : q \in CorePaths \cup (OptionalPaths \ lack) \cup SocketPaths(sockets)}

HostEnv(path, display, bare) ==
  (VarHOME :> HomeDir) @@ (VarUSER :> UserName)
    @@ (VarTERM :> IF bare THEN None ELSE TermName)
    @@ (VarWINEDEBUG :> None) @@ (VarPATH :> path) @@ (VarDISPLAY :> display)

AllCommands == {"nxagent", "Xephyr", "Xnest", "Xvfb", "xpra", "bwrap"}

InstalledChoices ==
  { AllCommands,
    {"bwrap"},
    {"bwrap", "Xvfb", "xpra"},
    {"bwrap", "Xephyr", "Xnest"},
    AllCommands \ {"bwrap"} }

\* /opt/bin is a symbolic link to /usr/bin on every host of the model.
HostLinks == { <<POptBin, PUsrBin>> }

DefaultConfig ==
  [network |-> FALSE, pulseaudio |-> FALSE, x11 |-> "none", x11_display_number |-> -1,
   dotwine |-> None, extra_binds |-> <<>>, argv_0 |-> ProgBare, argv_1_plus |-> <<>>,
   configure |-> FALSE, with_wine |-> TRUE, second_try |-> FALSE]

\* The --pass options of the runs.
BindSeqs ==
  { <<>>, <<TokUsr2Ro>>, <<TokOptRw>>, <<TokRelRw>>, <<TokNoColon>>, <<TokBadMode>>,
    <<TokColonPath>>, <<TokOptRw, TokUsr2Ro>>, <<TokOptRw, TokRelRw>>,
    <<TokOptRelRo, TokOptRw>>, <<TokHomeRo>>,
    <<TokUsr2Ro, TokNoColon>> }

\* Configurations that vary what the mount plan is built from.
MountConfigs ==
  { [DefaultConfig EXCEPT !.network = c[1], !.pulseaudio = c[2], !.x11 = c[3],
                          !.dotwine = c[4], !.extra_binds = c[5], !.argv_0 = c[6]] :
      c \in BOOLEAN \X BOOLEAN \X {"none", "host"} \X {None, DotwineRw, DotwineBad}
              \X BindSeqs \X {ProgBare, ProgRun} }

\* Configurations that vary the payload wrapping.
PayloadConfigs ==
  { [DefaultConfig EXCEPT !.x11 = c[1], !.dotwine = c[2], !.configure = c[3],
                          !.with_wine = c[4], !.second_try = c[5], !.argv_0 = c[6]] :
      c \in {"none", "host"} \X {None, DotwineRo} \X BOOLEAN \X BOOLEAN \X BOOLEAN
              \X {None, ProgBare} }

\* Configurations that vary the display mode.
DisplayConfigs ==
  { [DefaultConfig EXCEPT !.x11 = c[1], !.extra_binds = c[2]] :
      c \in {"none", "auto", "host", "nxagent", "xephyr", "xnest", "xvfb", "xpra"}
              \X {<<>>, <<TokNoColon>>} }

\* ----------------------------------------------------------------- state

VARIABLES
  config,      \* the parsed command line, as main() updates it
  host,        \* the host: paths, links, env, installed commands
  api,         \* whose display code runs: "main" (_main.py) or "x11" (_x11.py)
  ctx,         \* the class of x11context
  pc,          \* where main() stands
  pending,     \* the exception that is propagating, "none" when there is none
  exit_code,   \* the exit status of the process, -1 while it runs
  argv,        \* the groups create_bwrap_argv returned
  procs,       \* _process, _server_process, _client_process
  tempdir,     \* XpraContext._tempdir: "unset", "exists", "removed"
  xpra_socket, \* whether the xpra server has bound its socket in the tempdir
  exit_idx,    \* the position of __exit__ in the processes it stops
  engine,      \* the bwrap process: "none", "running", "exited", "killed"
  hist,        \* what happened so far (history only, nothing reads it)
  alloc,       \* the display number allocator called on its own
  pty,         \* the PTY relay
  shell,       \* the command line behind "--" as sh runs it in the sandbox
  again,       \* create_bwrap_argv called twice in a row
  duo          \* two runs of main() at once on one socket directory

vars ==
  <<config, host, api, ctx, pc, pending, exit_code, argv, procs, tempdir, xpra_socket,
    exit_idx, engine, hist, alloc, pty, shell, again, duo>>

SIGINT == 2

NoProcess == [st |-> "unset", sent |-> <<>>, waits |-> 0]

NoProcs == [n \in {"process", "server", "client"} |-> NoProcess]

NoHist ==
  [observed |-> FALSE, executed |-> FALSE, ready |-> FALSE, spawned |-> FALSE,
   compile |-> "none", interrupts |-> {}, after_spawn |-> FALSE, enter_failed |-> FALSE,
   created |-> FALSE]

AllocIdle == [minimum |-> 0, result |-> -1, by |-> "none"]

NoStatus == -1

PtyIdle ==
  [pc |-> "idle", isatty |-> FALSE, child |-> "none", status |-> 0, open |-> FALSE,
   exitstatus |-> NoStatus, signalstatus |-> NoStatus, exit_code |-> NoStatus,
   host_rows |-> 0, child_rows |-> 0, returned_while |-> "none"]

ShellIdle == [mode |-> "idle", cur |-> <<>>, stack |-> <<>>, status |-> NoStatus, log |-> <<>>]

AgainIdle == [pc |-> "idle", created |-> FALSE, first |-> <<>>, second |-> <<>>]

Launches == {1, 2}

NoLaunch == [pc |-> "idle", number |-> -1, process |-> "unset", observed |-> 0]

DuoIdle == [launch |-> [l \in Launches |-> NoLaunch], made |-> {}]

MainIdle ==
  /\ config = DefaultConfig
  /\ api = "main"
  /\ ctx = "nullcontext"
  /\ pc = "idle"
  /\ pending = "none"
  /\ exit_code = -1
  /\ argv = NoArgv
  /\ procs = NoProcs
  /\ tempdir = "unset"
  /\ xpra_socket = FALSE
  /\ exit_idx = 1
  /\ engine = "none"
  /\ hist = NoHist
  /\ shell = ShellIdle
  /\ again = AgainIdle

MaxHostDisplay == 1   \* display sockets X0..XMaxHostDisplay may exist when main() starts

\* The runs of main(): every display mode on a few hosts, and every mount and
\* payload configuration with the display off or passed through.
Init ==
  /\ pc = "start"
  /\ pending = "none"
  /\ exit_code = -1
  /\ argv = NoArgv
  /\ procs = NoProcs
  /\ tempdir = "unset"
  /\ xpra_socket = FALSE
  /\ exit_idx = 1
  /\ engine = "none"
  /\ hist = NoHist
  /\ shell = ShellIdle
  /\ again = AgainIdle
  /\ duo = DuoIdle
  /\ ctx = "nullcontext"
  /\ alloc = AllocIdle
  /\ pty = PtyIdle
  /\ \/ /\ api \in {"main", "x11"}
        /\ config \in DisplayConfigs
        /\ config.x11 = "xpra" => api = "x11"
        /\ \E sockets \in SUBSET (0..MaxHostDisplay), installed \in InstalledChoices,
              display \in {None, Display1} :
             host = [paths |-> HostPaths({}, sockets), links |-> HostLinks,
                     env |-> HostEnv(PathA, display, FALSE), installed |-> installed]
     \/ /\ api = "main"
        /\ config \in MountConfigs \cup PayloadConfigs
        /\ \E c \in CompileHosts :
             host = [paths |-> HostPaths(c[1], c[3]), links |-> HostLinks,
                     env |-> HostEnv(c[2], Display0, c[2] = PathB),
                     installed |-> AllCommands]

\* ------------------------------------------------------------------ main()

Raise(exception, code) ==
  /\ pending' = exception
  /\ exit_code' = code
  /\ pc' = "done"

\* Lines 493-506: the display mode, the display number and the context.
ResolveDisplay ==
  /\ pc = "start"
  /\ UNCHANGED <<host, api, argv, procs, tempdir, xpra_socket, exit_idx, engine, hist,
                 alloc, pty, shell, again, duo>>
  /\ IF config.x11 = "none"
       THEN /\ ctx' = "nullcontext"
            /\ pc' = "compile"
            /\ UNCHANGED <<config, pending, exit_code>>
       ELSE LET mode == IF config.x11 = "auto"
                          THEN IF api = "main" THEN detect_nested(host)
                                               ELSE detect_and_require_nested_x11(host)
                          ELSE config.x11
                number == IF mode = "host" THEN get_host_display(host)
                          ELSE IF api = "main" THEN find_unused_display(host)
                          ELSE find_unused(host, 0)
            IN IF mode = "exit127"
                 THEN /\ Raise("SystemExit", 127)
                      /\ UNCHANGED <<config, ctx>>
                 ELSE /\ config' = [config EXCEPT !.x11 = mode, !.x11_display_number = number]
                      /\ ctx' = IF api = "main" THEN "X11Context" ELSE create_x11_context(mode)
                      /\ pc' = "compile"
                      /\ UNCHANGED <<pending, exit_code>>

\* Line 508: create_bwrap_argv(config), and how main() goes on from it.
Compile ==
  /\ pc = "compile"
  /\ \E built \in {create_bwrap_argv(config, host)} :
        /\ host' = built.host
        /\ argv' = built.argv
        /\ hist' = [hist EXCEPT !.compile = built.status,
                                !.created = DotwineCreated(config, host)]
        /\ CASE built.status = "ok" -> /\ pc' = "enter"
                                       /\ UNCHANGED <<pending, exit_code>>
             [] built.status = "exit1" -> Raise("SystemExit", 1)
             [] built.status = "ValueError" -> Raise("ValueError", 1)
  /\ UNCHANGED <<config, api, ctx, procs, tempdir, xpra_socket, exit_idx, engine, alloc, pty,
                 shell, again, duo>>

Spawn(name) == [procs EXCEPT ![name] = [st |-> "running", sent |-> <<>>, waits |-> 0]]

\* __enter__ up to the first wait: nullcontext, X11Context (lines 217-240) and
\* _SimpleX11Context (lines 110-118).
EnterSimple ==
  /\ pc = "enter"
  /\ ctx \in {"nullcontext", "X11Context", "_SimpleX11Context"}
  /\ UNCHANGED <<config, host, api, ctx, argv, tempdir, xpra_socket, exit_idx, engine,
                 alloc, pty,
                 shell, again, duo>>
  /\ IF ctx = "nullcontext"
       THEN /\ pc' = "call"
            /\ UNCHANGED <<pending, exit_code, procs, hist>>
     ELSE IF ctx = "X11Context" /\ config.x11 = "host"
       THEN /\ pc' = "poll"
            /\ UNCHANGED <<pending, exit_code, procs, hist>>
     ELSE IF Available(CommandOf(config.x11), host)
       THEN /\ procs' = Spawn("process")
            /\ hist' = [hist EXCEPT !.spawned = TRUE]
            /\ pc' = "poll"
            /\ UNCHANGED <<pending, exit_code>>
     ELSE /\ Raise("SystemExit", 127)
          /\ hist' = [hist EXCEPT !.enter_failed = TRUE]
          /\ UNCHANGED procs

\* The wait for the display socket (lines 242-244 of _main.py, lines 120 and
\* 290 of _x11.py) at the moment it finds the socket; until then it sleeps.
Poll ==
  /\ pc = "poll"
  /\ PathExists(get_unix_socket_for(config.x11_display_number), host)
  /\ pc' = "call"
  /\ hist' = [hist EXCEPT !.observed = TRUE, !.ready = TRUE]
  /\ UNCHANGED <<config, host, api, ctx, pending, exit_code, argv, procs, tempdir,
                 xpra_socket, exit_idx, engine, alloc, pty,
                 shell, again, duo>>

\* XpraContext.__enter__, lines 224-233: the temporary directory.
XpraEnter ==
  /\ pc = "enter"
  /\ ctx = "XpraContext"
  /\ tempdir' = "exists"
  /\ pc' = "xpra_server"
  /\ UNCHANGED <<config, host, api, ctx, pending, exit_code, argv, procs, xpra_socket,
                 exit_idx, engine, hist, alloc, pty,
                 shell, again, duo>>

\* Line 282 and, when the command is missing, lines 286-288.
XpraSpawnServer ==
  /\ pc = "xpra_server"
  /\ UNCHANGED <<config, host, api, ctx, argv, tempdir, xpra_socket, exit_idx, engine,
                 alloc, pty,
                 shell, again, duo>>
  /\ IF Available("xpra", host)
       THEN /\ procs' = Spawn("server")
            /\ hist' = [hist EXCEPT !.spawned = TRUE]
            /\ pc' = "xpra_socket"
            /\ UNCHANGED <<pending, exit_code>>
       ELSE /\ Raise("SystemExit", 127)
            /\ hist' = [hist EXCEPT !.enter_failed = TRUE]
            /\ UNCHANGED procs

\* Line 283: _wait_until_file_present(unix_socket_path) finds the file.
XpraWaitSocket ==
  /\ pc = "xpra_socket"
  /\ xpra_socket
  /\ pc' = "xpra_probe"
  /\ UNCHANGED <<config, host, api, ctx, pending, exit_code, argv, procs, tempdir,
                 xpra_socket, exit_idx, engine, hist, alloc, pty,
                 shell, again, duo>>

\* Line 284: "xpra id" returns 0, which it does once the server answers.
XpraProbe ==
  /\ pc = "xpra_probe"
  /\ procs["server"].st = "running"
  /\ pc' = "xpra_client"
  /\ UNCHANGED <<config, host, api, ctx, pending, exit_code, argv, procs, tempdir,
                 xpra_socket, exit_idx, engine, hist, alloc, pty,
                 shell, again, duo>>

\* Line 285: the client is spawned; line 290 waits next.
XpraSpawnClient ==
  /\ pc = "xpra_client"
  /\ procs' = Spawn("client")
  /\ pc' = "poll"
  /\ UNCHANGED <<config, host, api, ctx, pending, exit_code, argv, tempdir, xpra_socket,
                 exit_idx, engine, hist, alloc, pty,
                 shell, again, duo>>

\* Line 515: subprocess.call(argv) starts bwrap, or lines 516-518.
CallEngine ==
  /\ pc = "call"
  /\ UNCHANGED <<config, host, api, ctx, pending, argv, procs, tempdir, xpra_socket, alloc,
                 pty,
                 shell, again, duo>>
  /\ IF Available("bwrap", host)
       THEN /\ engine' = "running"
            /\ hist' = [hist EXCEPT !.executed = TRUE]
            /\ pc' = "running"
            /\ UNCHANGED <<exit_code, exit_idx>>
       ELSE /\ exit_code' = 127
            /\ exit_idx' = 1
            /\ pc' = "exit"
            /\ UNCHANGED <<engine, hist>>

\* Line 515: bwrap ends and subprocess.call returns its status.
EngineReturns ==
  /\ pc = "running"
  /\ \E status \in 0..MaxExitStatus : exit_code' = status
  /\ engine' = "exited"
  /\ exit_idx' = 1
  /\ pc' = "exit"
  /\ UNCHANGED <<config, host, api, ctx, pending, argv, procs, tempdir, xpra_socket, hist,
                 alloc, pty,
                 shell, again, duo>>

\* An __exit__ that stops no process.
ExitProcessesNone == <<>>

\* An __exit__ of XpraContext that stops the server before the client.
ExitProcessesServerFirst ==
  CASE ctx = "XpraContext" -> <<"server", "client">>
    [] ctx \in {"X11Context", "_SimpleX11Context"} -> <<"process">>
    [] ctx = "nullcontext" -> <<>>

\* The processes __exit__ stops, in its order, and the signal it sends.
ExitProcesses ==
  CASE ctx = "XpraContext" -> <<"client", "server">>
    [] ctx \in {"X11Context", "_SimpleX11Context"} -> <<"process">>
    [] ctx = "nullcontext" -> <<>>

ExitSignal == IF ctx = "XpraContext" THEN "SIGTERM" ELSE "SIGINT"

\* __exit__ at a process: send_signal (lines 247-249 of _main.py, 125-127 and
\* 297-301 of _x11.py), or the end of __exit__ (lines 304-305 for xpra).
ExitStep ==
  /\ pc = "exit"
  /\ UNCHANGED <<config, host, api, ctx, pending, exit_code, argv, xpra_socket, engine,
                 hist, alloc, pty,
                 shell, again, duo>>
  /\ IF exit_idx > Len(ExitProcesses)
       THEN /\ tempdir' = IF ctx = "XpraContext" THEN "removed" ELSE tempdir
            /\ pc' = "leave"
            /\ UNCHANGED <<procs, exit_idx>>
     ELSE IF procs[ExitProcesses[exit_idx]].st = "unset"
       THEN /\ exit_idx' = exit_idx + 1
            /\ UNCHANGED <<procs, tempdir, pc>>
     ELSE /\ procs' = [procs EXCEPT ![ExitProcesses[exit_idx]].sent = Append(@, ExitSignal)]
          /\ pc' = "exit_wait"
          /\ UNCHANGED <<tempdir, exit_idx>>

\* process.wait() returns: the process has ended.
ExitWait ==
  /\ pc = "exit_wait"
  /\ procs[ExitProcesses[exit_idx]].st = "ended"
  /\ procs' = [procs EXCEPT ![ExitProcesses[exit_idx]].waits = @ + 1]
  /\ exit_idx' = exit_idx + 1
  /\ pc' = "exit"
  /\ UNCHANGED <<config, host, api, ctx, pending, exit_code, argv, tempdir, xpra_socket,
                 engine, hist, alloc, pty,
                 shell, again, duo>>

\* Lines 520-523: the with statement is left, a KeyboardInterrupt is turned
\* into 128 + SIGINT, and sys.exit(exit_code).
Leave ==
  /\ pc = "leave"
  /\ exit_code' = IF pending = "KeyboardInterrupt" THEN 128 + SIGINT ELSE exit_code
  /\ pc' = "done"
  /\ UNCHANGED <<config, host, api, ctx, pending, argv, procs, tempdir, xpra_socket,
                 exit_idx, engine, hist, alloc, pty,
                 shell, again, duo>>

\* The part of main() a program counter belongs to.
Phase(p) ==
  CASE p \in {"start", "compile"} -> "before"
    [] p \in {"enter", "poll", "xpra_server", "xpra_socket", "xpra_probe", "xpra_client"}
         -> "enter"
    [] p \in {"call", "running"} -> "payload"
    [] p \in {"exit", "exit_wait"} -> "exit"
    [] OTHER -> "after"

\* A with statement that lets every KeyboardInterrupt skip __exit__.
AfterInterruptSkipsExit(phase) == "leave"

\* Where a KeyboardInterrupt raised in a phase takes main(): raised in the
\* body of the with statement it runs __exit__ on its way out, raised in
\* __enter__ or in __exit__ it leaves the with statement at once.
AfterInterrupt(phase) == IF phase = "payload" THEN "exit" ELSE "leave"

\* A KeyboardInterrupt is raised in main() (subprocess.call kills bwrap when
\* it is raised there).
Interrupt ==
  /\ Phase(pc) # "after"
  /\ pending' = "KeyboardInterrupt"
  /\ hist' = [hist EXCEPT !.interrupts = @ \cup {Phase(pc)},
                          !.after_spawn = @ \/ hist.spawned,
                          !.enter_failed = @ \/ Phase(pc) = "enter"]
  /\ pc' = AfterInterrupt(Phase(pc))
  /\ exit_idx' = 1
  /\ engine' = IF engine = "running" THEN "killed" ELSE engine
  /\ UNCHANGED <<config, host, api, ctx, exit_code, argv, procs, tempdir, xpra_socket,
                 alloc, pty,
                 shell, again, duo>>

\* ------------------------------------------------------ the X11 processes

\* A running X server (the nested one, or the one xpra starts) creates the
\* socket of its display.
ServerCreatesSocket ==
  /\ \E n \in {"process", "server"} : procs[n].st = "running"
  /\ ~PathExists(get_unix_socket_for(config.x11_display_number), host)
  /\ host' = [host EXCEPT !.paths = @ \cup {get_unix_socket_for(config.x11_display_number)}]
  /\ UNCHANGED <<config, api, ctx, pc, pending, exit_code, argv, procs, tempdir, xpra_socket,
                 exit_idx, engine, hist, alloc, pty,
                 shell, again, duo>>

\* The xpra server binds the socket of --bind in the temporary directory.
XpraServerBinds ==
  /\ procs["server"].st = "running"
  /\ tempdir = "exists"
  /\ ~xpra_socket
  /\ xpra_socket' = TRUE
  /\ UNCHANGED <<config, host, api, ctx, pc, pending, exit_code, argv, procs, tempdir,
                 exit_idx, engine, hist, alloc, pty,
                 shell, again, duo>>

\* A process ends: because it was signalled, or on its own.
ProcessEnds ==
  /\ \E n \in {"process", "server", "client"} :
       /\ procs[n].st = "running"
       /\ procs' = [procs EXCEPT ![n].st = "ended"]
  /\ UNCHANGED <<config, host, api, ctx, pc, pending, exit_code, argv, tempdir, xpra_socket,
                 exit_idx, engine, hist, alloc, pty,
                 shell, again, duo>>

Next ==
  \/ ResolveDisplay
  \/ Compile
  \/ EnterSimple
  \/ Poll
  \/ XpraEnter
  \/ XpraSpawnServer
  \/ XpraWaitSocket
  \/ XpraProbe
  \/ XpraSpawnClient
  \/ CallEngine
  \/ EngineReturns
  \/ ExitStep
  \/ ExitWait
  \/ Leave
  \/ Interrupt
  \/ ServerCreatesSocket
  \/ XpraServerBinds
  \/ ProcessEnds

Spec == Init /\ [][Next]_vars

\* ----------------------------------------------- the allocator on its own

\* The allocator on every set of display sockets among X0..XMaxDisplay and
\* every minimum up to MaxMinimum.
InitAlloc ==
  /\ MainIdle
  /\ duo = DuoIdle
  /\ pty = PtyIdle
  /\ \E sockets \in SUBSET (0..MaxDisplay) :
       host = [paths |-> HostPaths({}, sockets), links |-> HostLinks,
               env |-> HostEnv(PathA, None, FALSE), installed |-> AllCommands]
  /\ alloc \in [minimum : 0..MaxMinimum, result : {-1}, by : {"none"}]

CallFindUnused ==
  /\ alloc.by = "none"
  /\ alloc' = [alloc EXCEPT !.result = find_unused(host, alloc.minimum),
                            !.by = "find_unused"]
  /\ UNCHANGED <<config, host, api, ctx, pc, pending, exit_code, argv, procs, tempdir,
                 xpra_socket, exit_idx, engine, hist, pty,
                 shell, again, duo>>

CallFindUnusedDisplay ==
  /\ alloc.by = "none"
  /\ alloc' = [minimum |-> 0, result |-> find_unused_display(host),
               by |-> "find_unused_display"]
  /\ UNCHANGED <<config, host, api, ctx, pc, pending, exit_code, argv, procs, tempdir,
                 xpra_socket, exit_idx, engine, hist, pty,
                 shell, again, duo>>

NextAlloc == CallFindUnused \/ CallFindUnusedDisplay

SpecAlloc == InitAlloc /\ [][NextAlloc]_vars

\* ------------------------------------------------------------ the PTY relay

ExitStatuses == {0, 1, 42, 130, 255}
Signals == {1, 2, 9, 15}
Rows == {24, 50}

InitPty ==
  /\ MainIdle
  /\ duo = DuoIdle
  /\ alloc = AllocIdle
  /\ host = [paths |-> HostPaths({}, {}), links |-> HostLinks,
             env |-> HostEnv(PathA, None, FALSE), installed |-> AllCommands]
  /\ \E rows \in Rows, tty \in BOOLEAN :
       pty = [PtyIdle EXCEPT !.pc = "spawn", !.isatty = tty, !.host_rows = rows]

\* _copy_window_size(to_p, from_fd): the rows the child's terminal has then.
copy_window_size(r, host_rows) ==
  IF ~r.isatty THEN r.child_rows
  ELSE IF r.pc = "done" THEN r.child_rows
  ELSE host_rows

\* Lines 48-52: the child is spawned on a new pty, the SIGWINCH handler is
\* installed and the window size is copied.
PtySpawn ==
  /\ pty.pc = "spawn"
  /\ pty' = [pty EXCEPT !.pc = "interact", !.child = "running", !.open = TRUE,
                        !.child_rows = copy_window_size(pty, pty.host_rows)]
  /\ UNCHANGED <<config, host, api, ctx, pc, pending, exit_code, argv, procs, tempdir,
                 xpra_socket, exit_idx, engine, hist, alloc,
                 shell, again, duo>>

\* Lines 54-58: p.interact() returns when the child's side of the pty is closed.
PtyInteractReturns ==
  /\ pty.pc = "interact"
  /\ ~pty.open
  /\ pty' = [pty EXCEPT !.pc = "wait"]
  /\ UNCHANGED <<config, host, api, ctx, pc, pending, exit_code, argv, procs, tempdir,
                 xpra_socket, exit_idx, engine, hist, alloc,
                 shell, again, duo>>

\* Line 60: p.wait() returns once the child has terminated, with its status.
PtyWaitReturns ==
  /\ pty.pc = "wait"
  /\ pty.child \in {"exited", "signaled"}
  /\ pty' = [pty EXCEPT !.pc = "close",
                        !.exitstatus = IF pty.child = "exited" THEN pty.status ELSE NoStatus,
                        !.signalstatus = IF pty.child = "signaled" THEN pty.status
                                         ELSE NoStatus]
  /\ UNCHANGED <<config, host, api, ctx, pc, pending, exit_code, argv, procs, tempdir,
                 xpra_socket, exit_idx, engine, hist, alloc,
                 shell, again, duo>>

\* An exit code that reports the signal number as it is.
PtyExitCodePlainSignal(signalstatus, exitstatus) ==
  IF signalstatus # NoStatus THEN signalstatus ELSE exitstatus

\* Lines 63-66.
PtyExitCode(signalstatus, exitstatus) ==
  IF signalstatus # NoStatus THEN 128 + signalstatus ELSE exitstatus

\* Lines 61-68: p.close() and the exit code.
PtyReturn ==
  /\ pty.pc = "close"
  /\ pty' = [pty EXCEPT !.pc = "done",
                        !.exit_code = PtyExitCode(pty.signalstatus, pty.exitstatus),
                        !.returned_while = pty.child]
  /\ UNCHANGED <<config, host, api, ctx, pc, pending, exit_code, argv, procs, tempdir,
                 xpra_socket, exit_idx, engine, hist, alloc,
                 shell, again, duo>>

\* The child closes its terminal and goes on running.
ChildCloses ==
  /\ pty.child = "running"
  /\ pty.open
  /\ pty' = [pty EXCEPT !.open = FALSE]
  /\ UNCHANGED <<config, host, api, ctx, pc, pending, exit_code, argv, procs, tempdir,
                 xpra_socket, exit_idx, engine, hist, alloc,
                 shell, again, duo>>

\* The child calls exit.
ChildExits ==
  /\ pty.child = "running"
  /\ \E status \in ExitStatuses :
       pty' = [pty EXCEPT !.child = "exited", !.status = status, !.open = FALSE]
  /\ UNCHANGED <<config, host, api, ctx, pc, pending, exit_code, argv, procs, tempdir,
                 xpra_socket, exit_idx, engine, hist, alloc,
                 shell, again, duo>>

\* The child is killed by a signal.
ChildKilled ==
  /\ pty.child = "running"
  /\ \E sig \in Signals :
       pty' = [pty EXCEPT !.child = "signaled", !.status = sig, !.open = FALSE]
  /\ UNCHANGED <<config, host, api, ctx, pc, pending, exit_code, argv, procs, tempdir,
                 xpra_socket, exit_idx, engine, hist, alloc,
                 shell, again, duo>>

\* The terminal of the relay is resized: SIGWINCH, and _handle_sigwinch
\* (lines 40-41) copies the size.
Resize ==
  /\ pty.pc \in {"interact", "wait", "close", "done"}
  /\ \E rows \in Rows \ {pty.host_rows} :
       pty' = [pty EXCEPT !.host_rows = rows, !.child_rows = copy_window_size(pty, rows)]
  /\ UNCHANGED <<config, host, api, ctx, pc, pending, exit_code, argv, procs, tempdir,
                 xpra_socket, exit_idx, engine, hist, alloc,
                 shell, again, duo>>

NextPty ==
  \/ PtySpawn
  \/ PtyInteractReturns
  \/ PtyWaitReturns
  \/ PtyReturn
  \/ ChildCloses
  \/ ChildExits
  \/ ChildKilled
  \/ Resize

SpecPty == InitPty /\ [][NextPty]_vars

\* ------------------------------------- the command line in the sandbox

\* The hosts the compiled command line is run for: with and without the
\* directory of --dotwine.
RunHosts == { <<{}, PathA, {0}>>, <<{PSrvW, PLib32, PRunExe}, PathA, {}>> }

\* The exit statuses wineserver -p0 and winecfg end with.
ToolStatuses == {0, 1}

RECURSIVE Flatten(_, _)
\* ArgvBuilder.iter_flat() from group i on
Flatten(groups, i) ==
  IF i > Len(groups) THEN <<>> ELSE groups[i] \o Flatten(groups, i + 1)

\* The position of the "--" group in the argv groups.
DashesIn(groups) == CHOOSE i \in DOMAIN groups : groups[i] = <<Lit("--")>>

\* The command line bwrap executes: the words behind "--".
SandboxCommand(groups) == Flatten(groups, DashesIn(groups) + 1)

InitRun ==
  /\ api = "main"
  /\ ctx = "nullcontext"
  /\ pc = "idle"
  /\ pending = "none"
  /\ exit_code = -1
  /\ argv = NoArgv
  /\ procs = NoProcs
  /\ tempdir = "unset"
  /\ xpra_socket = FALSE
  /\ exit_idx = 1
  /\ engine = "none"
  /\ hist = NoHist
  /\ alloc = AllocIdle
  /\ pty = PtyIdle
  /\ again = AgainIdle
  /\ duo = DuoIdle
  /\ shell = [ShellIdle EXCEPT !.mode = "compile"]
  /\ \E c \in RunHosts :
       host = [paths |-> HostPaths(c[1], c[3]), links |-> HostLinks,
               env |-> HostEnv(c[2], Display0, FALSE), installed |-> AllCommands]
  \* main() has set the display number of the host's display
  /\ \E cfg \in PayloadConfigs :
       config = [cfg EXCEPT !.x11_display_number =
                              IF cfg.x11 = "host" THEN get_host_display(host) ELSE @]

\* create_bwrap_argv(config), and bwrap starting the command it was given.
RunCompile ==
  /\ shell.mode = "compile"
  /\ \E built \in {create_bwrap_argv(config, host)} :
       /\ host' = built.host
       /\ argv' = built.argv
       /\ hist' = [hist EXCEPT !.compile = built.status, !.created = DotwineCreated(config, host)]
       /\ shell' = IF built.status = "ok"
                     THEN [shell EXCEPT !.mode = "exec", !.cur = SandboxCommand(built.argv)]
                     ELSE [shell EXCEPT !.mode = "aborted"]
  /\ UNCHANGED <<config, api, ctx, pc, pending, exit_code, procs, tempdir, xpra_socket,
                 exit_idx, engine, alloc, pty, again, duo>>

\* A command line is executed: sh -c SCRIPT $0 $@ starts the script, anything
\* else is the payload, which runs and ends with a status.
ShExec ==
  /\ shell.mode = "exec"
  /\ LET w == shell.cur IN
       IF Len(w) >= 3 /\ w[1] = Lit("sh") /\ w[2] = Lit("-c")
         THEN shell' = [shell EXCEPT
                          !.stack = Append(@, [script |-> w[3], args |-> SubSeq(w, 4, Len(w)),
                                               at |-> 1, ret |-> NoStatus]),
                          !.cur = <<>>,
                          !.mode = "step"]
         ELSE \E status \in (IF w = <<Lit("true")>> THEN {0} ELSE 0..MaxExitStatus) :
                shell' = [shell EXCEPT
                            !.log = Append(@, [cmd |-> "payload", status |-> status]),
                            !.status = status,
                            !.cur = <<>>,
                            !.mode = "return"]
  /\ UNCHANGED <<config, host, api, ctx, pc, pending, exit_code, argv, procs, tempdir,
                 xpra_socket, exit_idx, engine, hist, alloc, pty, again, duo>>

\* The script on top runs its next command of its own.
\*   wineserver -p0 && "$0" "$@" ; ret=$? ; wineserver -k ; exit ${ret}
\*   winecfg && exec "$0" "$@"
\*   "$0" "$@" || exec "$0" "$@"
ShStep ==
  /\ shell.mode = "step"
  /\ LET n == Len(shell.stack)
         f == shell.stack[n]
         popped == SubSeq(shell.stack, 1, n - 1)
     IN CASE f.script = WineserverScript /\ f.at = 1 ->
               \E status \in ToolStatuses :
                 shell' = [shell EXCEPT
                   !.log = Append(@, [cmd |-> "wineserver -p0", status |-> status]),
                   !.stack[n] = IF status = 0 THEN [f EXCEPT !.at = 2]
                                ELSE [f EXCEPT !.at = 3, !.ret = status],
                   !.cur = IF status = 0 THEN f.args ELSE <<>>,
                   !.mode = IF status = 0 THEN "exec" ELSE "step"]
          [] f.script = WineserverScript /\ f.at = 3 ->
               \E status \in ToolStatuses :
                 shell' = [shell EXCEPT
                   !.log = Append(@, [cmd |-> "wineserver -k", status |-> status]),
                   !.stack = popped,
                   !.status = f.ret,
                   !.mode = "return"]
          [] f.script = WinecfgScript /\ f.at = 1 ->
               \E status \in ToolStatuses :
                 shell' = [shell EXCEPT
                   !.log = Append(@, [cmd |-> "winecfg", status |-> status]),
                   !.stack = popped,
                   !.status = status,
                   !.cur = IF status = 0 THEN f.args ELSE <<>>,
                   !.mode = IF status = 0 THEN "exec" ELSE "return"]
          [] f.script = SecondTryScript /\ f.at = 1 ->
               shell' = [shell EXCEPT !.stack[n] = [f EXCEPT !.at = 2],
                                      !.cur = f.args,
                                      !.mode = "exec"]
  /\ UNCHANGED <<config, host, api, ctx, pc, pending, exit_code, argv, procs, tempdir,
                 xpra_socket, exit_idx, engine, hist, alloc, pty, again, duo>>

\* A command has ended with shell.status: the script that ran it goes on, or
\* it was the command bwrap ran and its status is the one of the sandbox.
ShReturn ==
  /\ shell.mode = "return"
  /\ LET n == Len(shell.stack)
         f == shell.stack[n]
         popped == SubSeq(shell.stack, 1, n - 1)
     IN IF n = 0 THEN shell' = [shell EXCEPT !.mode = "done"]
        ELSE CASE f.script = WineserverScript /\ f.at = 2 ->
                    shell' = [shell EXCEPT !.stack[n] = [f EXCEPT !.at = 3, !.ret = shell.status],
                                           !.mode = "step"]
               [] f.script = SecondTryScript /\ f.at = 2 ->
                    IF shell.status = 0
                      THEN shell' = [shell EXCEPT !.stack = popped]
                      ELSE shell' = [shell EXCEPT !.stack = popped, !.cur = f.args,
                                                  !.mode = "exec"]
  /\ UNCHANGED <<config, host, api, ctx, pc, pending, exit_code, argv, procs, tempdir,
                 xpra_socket, exit_idx, engine, hist, alloc, pty, again, duo>>

NextRun == RunCompile \/ ShExec \/ ShStep \/ ShReturn

SpecRun == InitRun /\ [][NextRun]_vars

\* ------------------------------------------ create_bwrap_argv twice

InitAgain ==
  /\ api = "main"
  /\ ctx = "nullcontext"
  /\ pc = "idle"
  /\ pending = "none"
  /\ exit_code = -1
  /\ argv = NoArgv
  /\ procs = NoProcs
  /\ tempdir = "unset"
  /\ xpra_socket = FALSE
  /\ exit_idx = 1
  /\ engine = "none"
  /\ hist = NoHist
  /\ alloc = AllocIdle
  /\ pty = PtyIdle
  /\ shell = ShellIdle
  /\ again = [AgainIdle EXCEPT !.pc = "first"]
  /\ duo = DuoIdle
  /\ \E c \in CompileHosts :
       host = [paths |-> HostPaths(c[1], c[3]), links |-> HostLinks,
               env |-> HostEnv(c[2], Display0, c[2] = PathB), installed |-> AllCommands]
  /\ \E cfg \in MountConfigs \cup PayloadConfigs :
       config = [cfg EXCEPT !.x11_display_number =
                              IF cfg.x11 = "host" THEN get_host_display(host) ELSE @]

\* The result of a call without the host it leaves.
Returned(built) == [status |-> built.status, argv |-> built.argv]

\* create_bwrap_argv(config) is called.
CompileFirst ==
  /\ again.pc = "first"
  /\ \E built \in {create_bwrap_argv(config, host)} :
       /\ host' = built.host
       /\ again' = [again EXCEPT !.pc = "second", !.first = Returned(built),
                                 !.created = DotwineCreated(config, host)]
  /\ UNCHANGED <<config, api, ctx, pc, pending, exit_code, argv, procs, tempdir, xpra_socket,
                 exit_idx, engine, hist, alloc, pty, shell, duo>>

\* create_bwrap_argv(config) is called again, on the host the first call left.
CompileSecond ==
  /\ again.pc = "second"
  /\ \E built \in {create_bwrap_argv(config, host)} :
       /\ host' = built.host
       /\ again' = [again EXCEPT !.pc = "done", !.second = Returned(built)]
  /\ UNCHANGED <<config, api, ctx, pc, pending, exit_code, argv, procs, tempdir, xpra_socket,
                 exit_idx, engine, hist, alloc, pty, shell, duo>>

NextAgain == CompileFirst \/ CompileSecond

SpecAgain == InitAgain /\ [][NextAgain]_vars

\* ------------------------------- create_bwrap_argv in two environments

VarLANG == <<"L", "A", "N", "G">>
VarLD == <<"L", "D", "_", "P", "R", "E", "L", "O", "A", "D">>

\* Variables of the host's environment that create_bwrap_argv has no task for,
\* each with a value.
OtherVariables == { <<VarLANG, <<"C">>>>, <<VarLD, <<"/", "x", ".", "s", "o">>>> }

\* Configurations that vary what the environment of the sandbox is built from.
EnvConfigs ==
  { [DefaultConfig EXCEPT !.network = c[1], !.pulseaudio = c[2], !.x11 = c[3],
                          !.dotwine = c[4], !.argv_0 = c[5]] :
      c \in BOOLEAN \X BOOLEAN \X {"none", "host"} \X {None, DotwineRw}
              \X {ProgBare, ProgRun} }

InitEnv ==
  /\ api = "main"
  /\ ctx = "nullcontext"
  /\ pc = "idle"
  /\ pending = "none"
  /\ exit_code = -1
  /\ argv = NoArgv
  /\ procs = NoProcs
  /\ tempdir = "unset"
  /\ xpra_socket = FALSE
  /\ exit_idx = 1
  /\ engine = "none"
  /\ hist = NoHist
  /\ shell = ShellIdle
  /\ again = AgainIdle
  /\ alloc = AllocIdle
  /\ pty = PtyIdle
  /\ duo = DuoIdle
  /\ \E c \in CompileHosts :
       host = [paths |-> HostPaths(c[1], c[3]), links |-> HostLinks,
               env |-> HostEnv(c[2], Display0, c[2] = PathB), installed |-> AllCommands]
  /\ \E cfg \in EnvConfigs :
       config = [cfg EXCEPT !.x11_display_number =
                              IF cfg.x11 = "host" THEN get_host_display(host) ELSE @]

\* os.environ with one more variable set.
SetEnv(h, other) == [h EXCEPT !.env = (other[1] :> other[2]) @@ @]

\* create_bwrap_argv(config) is called in the environment of the host, and
\* in the same environment with one more variable set.
CompileInTwoEnvironments ==
  /\ again.pc = "idle"
  /\ \E other \in OtherVariables :
       again' = [again EXCEPT
                   !.pc = "environments",
                   !.first = Returned(create_bwrap_argv(config, host)),
                   !.second = Returned(create_bwrap_argv(config, SetEnv(host, other)))]
  /\ UNCHANGED <<config, host, api, ctx, pc, pending, exit_code, argv, procs, tempdir,
                 xpra_socket, exit_idx, engine, hist, alloc, pty, shell, duo>>

NextEnv == CompileInTwoEnvironments

SpecEnv == InitEnv /\ [][NextEnv]_vars

\* ------------------------------------------------- two runs at the same time

\* Two runs of main() with a nested display of the simple kind (--x11 xephyr)
\* start together on a host where some display sockets exist already.
InitDuo ==
  /\ config = [DefaultConfig EXCEPT !.x11 = "xephyr"]
  /\ api = "main"
  /\ ctx = "nullcontext"
  /\ pc = "idle"
  /\ pending = "none"
  /\ exit_code = -1
  /\ argv = NoArgv
  /\ procs = NoProcs
  /\ tempdir = "unset"
  /\ xpra_socket = FALSE
  /\ exit_idx = 1
  /\ engine = "none"
  /\ hist = NoHist
  /\ shell = ShellIdle
  /\ again = AgainIdle
  /\ alloc = AllocIdle
  /\ pty = PtyIdle
  /\ \E sockets \in SUBSET (0..MaxHostDisplay) :
       host = [paths |-> HostPaths({}, sockets), links |-> HostLinks,
               env |-> HostEnv(PathA, Display0, FALSE), installed |-> AllCommands]
  /\ duo = [DuoIdle EXCEPT !.launch = [l \in Launches |-> [NoLaunch EXCEPT !.pc = "start"]]]

\* The run whose backend created the socket of a display, 0 when it was there
\* before the runs.
MadeBy(number) ==
  IF \E l \in Launches : <<number, l>> \in duo.made
    THEN CHOOSE l \in Launches : <<number, l>> \in duo.made
    ELSE 0

\* Line 500: config.x11_display_number = X11Context.find_unused_display().
DuoResolveDisplay(l) ==
  /\ duo.launch[l].pc = "start"
  /\ duo' = [duo EXCEPT !.launch[l].number = find_unused_display(host),
                         !.launch[l].pc = "enter"]
  /\ UNCHANGED <<config, host, api, ctx, pc, pending, exit_code, argv, procs, tempdir,
                 xpra_socket, exit_idx, engine, hist, alloc, pty, shell, again>>

\* Lines 233-237: the backend is started on the display number.
DuoEnter(l) ==
  /\ duo.launch[l].pc = "enter"
  /\ duo' = [duo EXCEPT !.launch[l].process = "running", !.launch[l].pc = "poll"]
  /\ UNCHANGED <<config, host, api, ctx, pc, pending, exit_code, argv, procs, tempdir,
                 xpra_socket, exit_idx, engine, hist, alloc, pty, shell, again>>

\* Lines 242-244: the wait ends when the path of the socket exists.
DuoPoll(l) ==
  /\ duo.launch[l].pc = "poll"
  /\ PathExists(get_unix_socket_for(duo.launch[l].number), host)
  /\ duo' = [duo EXCEPT !.launch[l].observed = MadeBy(duo.launch[l].number),
                         !.launch[l].pc = "call"]
  /\ UNCHANGED <<config, host, api, ctx, pc, pending, exit_code, argv, procs, tempdir,
                 xpra_socket, exit_idx, engine, hist, alloc, pty, shell, again>>

\* Line 515: subprocess.call(argv) runs bwrap.
DuoCallEngine(l) ==
  /\ duo.launch[l].pc = "call"
  /\ duo' = [duo EXCEPT !.launch[l].pc = "running"]
  /\ UNCHANGED <<config, host, api, ctx, pc, pending, exit_code, argv, procs, tempdir,
                 xpra_socket, exit_idx, engine, hist, alloc, pty, shell, again>>

\* Lines 246-250: bwrap has returned, the backend is sent SIGINT and waited
\* for; a backend that ends removes the socket it created.
DuoExit(l) ==
  /\ duo.launch[l].pc = "running"
  /\ host' = IF <<duo.launch[l].number, l>> \in duo.made
               THEN [host EXCEPT !.paths = @ \ {get_unix_socket_for(duo.launch[l].number)}]
               ELSE host
  /\ duo' = [duo EXCEPT !.launch[l].process = "ended", !.launch[l].pc = "done",
                         !.made = @ \ {<<duo.launch[l].number, l>>}]
  /\ UNCHANGED <<config, api, ctx, pc, pending, exit_code, argv, procs, tempdir,
                 xpra_socket, exit_idx, engine, hist, alloc, pty, shell, again>>

\* The backend of a run creates the socket of its display.
DuoServerCreatesSocket(l) ==
  /\ duo.launch[l].process = "running"
  /\ ~PathExists(get_unix_socket_for(duo.launch[l].number), host)
  /\ host' = [host EXCEPT !.paths = @ \cup {get_unix_socket_for(duo.launch[l].number)}]
  /\ duo' = [duo EXCEPT !.made = @ \cup {<<duo.launch[l].number, l>>}]
  /\ UNCHANGED <<config, api, ctx, pc, pending, exit_code, argv, procs, tempdir,
                 xpra_socket, exit_idx, engine, hist, alloc, pty, shell, again>>

\* The backend of a run finds the display taken and ends.
DuoServerGivesUp(l) ==
  /\ duo.launch[l].process = "running"
  /\ PathExists(get_unix_socket_for(duo.launch[l].number), host)
  /\ <<duo.launch[l].number, l>> \notin duo.made
  /\ duo' = [duo EXCEPT !.launch[l].process = "ended"]
  /\ UNCHANGED <<config, host, api, ctx, pc, pending, exit_code, argv, procs, tempdir,
                 xpra_socket, exit_idx, engine, hist, alloc, pty, shell, again>>

NextDuo ==
  \E l \in Launches :
    \/ DuoResolveDisplay(l)
    \/ DuoEnter(l)
    \/ DuoPoll(l)
    \/ DuoCallEngine(l)
    \/ DuoExit(l)
    \/ DuoServerCreatesSocket(l)
    \/ DuoServerGivesUp(l)

SpecDuo == InitDuo /\ [][NextDuo]_vars

\* ============================================================== properties

\* ------------------------------------------------- the display life cycle

Spawned == {n \in DOMAIN procs : procs[n].st # "unset"}

\* A process was sent a signal and waited for.
Stopped(n) == Len(procs[n].sent) >= 1 /\ procs[n].waits >= 1

\* C1: when a KeyboardInterrupt was raised after a display process had been
\* spawned, main() exits with every spawned process signalled and waited
\* for, and with exit code 130.
C1_InterruptStopsBackend ==
  (pc = "done" /\ hist.after_spawn)
    => /\ \A n \in Spawned : Stopped(n)
       /\ exit_code = 130

\* C2: a display process is never signalled twice nor waited for twice, and
\* a run whose display reached Ready ends with each process it spawned
\* signalled once and waited for once, whether the payload returned, bwrap
\* was missing or a KeyboardInterrupt ended the payload.
C2_StoppedExactlyOnce ==
  /\ \A n \in DOMAIN procs : Len(procs[n].sent) <= 1 /\ procs[n].waits <= 1
  /\ (pc = "done" /\ hist.ready /\ hist.spawned /\ hist.interrupts \subseteq {"payload"})
       => \A n \in Spawned : Len(procs[n].sent) = 1 /\ procs[n].waits = 1

\* A run with a nested display that a KeyboardInterrupt ended while bwrap
\* ran, at its exit.
C2_Witness ==
  /\ pc = "done"
  /\ hist.ready /\ hist.spawned /\ hist.executed
  /\ hist.interrupts = {"payload"}
  /\ procs["process"].waits = 1
  /\ exit_code = 130

\* C3: in every display mode but none, bwrap is executed only after the
\* socket of the display was seen to exist.
C3_EngineAfterSocket ==
  (hist.executed /\ config.x11 # "none") => hist.observed

\* C4: when XpraContext.__enter__ fails after it created the temporary
\* directory, the directory is removed by the time the failure has left
\* __enter__.
C4_TempdirRemovedOnFailure ==
  (ctx = "XpraContext" /\ hist.enter_failed /\ tempdir # "unset") => tempdir = "removed"

\* ------------------------------------------------------ the compiled argv

\* The state create_bwrap_argv leaves: main() has gone on to enter the
\* display context, or the build ended the process. The host is still the
\* one the build saw.
JustCompiled ==
  \/ pc = "enter"
  \/ pc = "done" /\ hist.compile \in {"exit1", "ValueError"}

MountFlags ==
  {Lit("--tmpfs"), Lit("--dev"), Lit("--proc"), Lit("--ro-bind"), Lit("--bind"),
   Lit("--dev-bind")}

\* The position of the "--" group, the end of the options of bwrap.
DashesAt(groups) ==
  IF \E i \in DOMAIN groups : groups[i] = <<Lit("--")>>
    THEN CHOOSE i \in DOMAIN groups :
           groups[i] = <<Lit("--")>> /\ \A j \in 1..(i - 1) : groups[j] # <<Lit("--")>>
    ELSE Len(groups) + 1

\* The mount operations of an argv, in its order.
MountOpsOf(groups) ==
  LET IsMountOp(g) == g[1] \in MountFlags
  IN SelectSeq(SubSeq(groups, 1, DashesAt(groups) - 1), IsMountOp)

OpTarget(op) == op[Len(op)]

\* The host path a task binds.
SourceOf(t) == IF t.source = None THEN t.target ELSE t.source

IsDisplaySocket(t) ==
  X11Active(config) /\ t.target = get_unix_socket_for(config.x11_display_number)

\* Every path:mode token of the command line parses.
TokensParse == DotwineParses(config) /\ ExtraBindsParse(config)

\* C6: the mount operations of the compiled argv are in non-decreasing
\* order of their target paths, compared character by character.
C6_MountOpsSorted ==
  \A ops \in {MountOpsOf(argv)} :
    \A i \in 1..(Len(ops) - 1) : StrLessEq(OpTarget(ops[i]), OpTarget(ops[i + 1]))

\* An argv whose extra binds were appended out of order: /opt before /usr2,
\* both behind the base tasks.
C6_Witness ==
  /\ pc = "enter"
  /\ config.extra_binds = <<TokOptRw, TokUsr2Ro>>
  /\ config.network /\ config.pulseaudio
  /\ \E i, j \in DOMAIN argv :
       /\ i < j
       /\ argv[i] = <<Lit("--bind"), POpt, POpt>>
       /\ argv[j] = <<Lit("--ro-bind"), PUsr2, PUsr2>>

\* C7: when a required bind task other than the display socket has a source
\* that does not exist on the host, create_bwrap_argv ends in sys.exit(1):
\* no argv is returned, the process exits with 1 and bwrap was not executed.
C7_MissingRequiredAborts ==
  (JustCompiled /\ TokensParse)
    => \A tasks \in {MountTasks(config, host)} :
         (\E i \in DOMAIN tasks :
            /\ tasks[i].required
            /\ tasks[i].mode \in BindModes
            /\ ~IsDisplaySocket(tasks[i])
            /\ ~PathExists(SourceOf(tasks[i]), host))
           => /\ hist.compile = "exit1"
              /\ argv = NoArgv
              /\ pc = "done"
              /\ exit_code = 1
              /\ ~hist.executed

\* The build with sound on a host without the PulseAudio socket.
C7_Witness ==
  /\ pc = "done"
  /\ hist.compile = "exit1"
  /\ config.pulseaudio
  /\ ~PathExists(pulseaudio_socket, host)
  /\ PathExists(PLib64, host)
  /\ exit_code = 1

\* C8: an optional task whose source does not exist on the host does not
\* fail the build (it succeeds when the tokens parse and the path of every
\* required bind task is there), and the compiled argv has no mount
\* operation with the target of that task.
C8_MissingOptionalDropped ==
  (JustCompiled /\ TokensParse)
    => \A tasks \in {MountTasks(config, host)} :
         \A i \in DOMAIN tasks :
           (/\ ~tasks[i].required
            /\ tasks[i].mode \in BindModes
            /\ ~PathExists(SourceOf(tasks[i]), host))
             => /\ (\A j \in DOMAIN tasks :
                      (tasks[j].required /\ tasks[j].mode \in BindModes
                         /\ ~IsDisplaySocket(tasks[j]))
                        => PathExists(tasks[j].target, host))
                     => hist.compile = "ok"
                /\ \A ops \in {MountOpsOf(argv)} :
                     \A k \in DOMAIN ops : OpTarget(ops[k]) # tasks[i].target

\* A build that succeeded without /lib32, the resolver configuration and the
\* .exe variant of the program.
C8_Witness ==
  /\ pc = "enter"
  /\ hist.compile = "ok"
  /\ config.network /\ ~PathExists(ResolvConf, host)
  /\ ~PathExists(PLib32, host)
  /\ config.argv_0 = ProgRun /\ ~PathExists(PRunExe, host)
  /\ Len(MountOpsOf(argv)) >= 12

\* A path is the other one or lies in the directory tree below it.
NestedUnder(path, target) ==
  /\ target # <<>> /\ Head(target) = Sep
  /\ \A tc \in {Components(target)}, pc_ \in {Components(path)} :
       Len(tc) <= Len(pc_) /\ SubSeq(pc_, 1, Len(tc)) = tc

\* The value of PATH in the sandbox.
SandboxPath ==
  LET i == CHOOSE i \in DOMAIN argv :
             Len(argv[i]) = 3 /\ argv[i][1] = Lit("--setenv") /\ argv[i][2] = VarPATH
  IN argv[i][3]

\* C9: the PATH of the sandbox is the host's PATH, each entry resolved, with
\* exactly the entries kept that are the target of a bind task or lie below
\* one, in the order of the host's PATH; an entry that only starts with the
\* characters of a target is not kept.
C9_PathFiltered ==
  (pc = "enter")
    => \A tasks \in {MountTasks(config, host)},
          candidates \in {Split(host.env[VarPATH], PathSep)} :
         LET resolved == [i \in DOMAIN candidates |-> RealPath(candidates[i], host.links)]
             Mounted(c) == \E i \in DOMAIN tasks :
                             tasks[i].mode \in BindModes /\ NestedUnder(c, tasks[i].target)
         IN SandboxPath = Join(SelectSeq(resolved, Mounted), PathSep)

\* /usr is bound and /usr2 is not: /usr/bin is kept and /usr2/bin is dropped.
C9_Witness ==
  /\ pc = "enter"
  /\ host.env[VarPATH] = PathA
  /\ config.extra_binds = <<TokOptRw>>
  /\ SandboxPath = PUsrBin \o <<":">> \o PUsrBin

\* ----------------------------------------------- the display number found

\* The smallest number from minimum on that no socket uses.
SmallestUnusedFrom(used, minimum) ==
  CHOOSE n \in minimum..(minimum + Cardinality(used)) :
    n \notin used /\ \A k \in minimum..(n - 1) : k \in used

\* C5: find_unused(minimum) returns the smallest display number that is at
\* least minimum and is not in use; find_unused_display() does so for 0.
C5_SmallestUnusedAtOrAboveMinimum ==
  (alloc.by # "none")
    => /\ alloc.result = SmallestUnusedFrom(used_displays(host), alloc.minimum)
       /\ alloc.result >= alloc.minimum

\* ------------------------------------------------------------ the PTY relay

\* C10: pty_spawn_argv returns only once the child has ended, and returns
\* 128 + s when signal s ended the child and the child's exit status
\* otherwise.
C10_ExitCodeAfterTermination ==
  (pty.pc = "done")
    => /\ pty.returned_while \in {"exited", "signaled"}
       /\ pty.returned_while = "signaled" => pty.exit_code = 128 + pty.status
       /\ pty.returned_while = "exited" => pty.exit_code = pty.status

\* The relay of a child that SIGINT ended has returned 130.
C10_Witness ==
  /\ pty.pc = "done"
  /\ pty.child = "signaled"
  /\ pty.status = 2
  /\ pty.exit_code = 130

\* ------------------------------------------- the wrappers of the payload

\* The statuses the runs of a command ended with, in their order.
StatusesOf(cmd) ==
  LET IsCmd(e) == e.cmd = cmd
      runs == SelectSeq(shell.log, IsCmd)
  IN [i \in DOMAIN runs |-> runs[i].status]

\* The stages in front of the payload let it run: none of them failed.
PayloadReached ==
  \A i \in DOMAIN shell.log :
    shell.log[i].cmd \in {"wineserver -p0", "winecfg"} => shell.log[i].status = 0

\* C11: once the command line has run with the stages in front of the
\* payload succeeding, the payload ran once without --retry; with --retry it
\* ran once when its first run ended with 0 and twice when it did not, never
\* more; and the status of the command line is the one of its last run.
C11_RetryWrapper ==
  \A runs \in {StatusesOf("payload")} :
    /\ Len(runs) <= (IF config.second_try THEN 2 ELSE 1)
    /\ (shell.mode = "done" /\ PayloadReached)
         => /\ ~config.second_try => Len(runs) = 1
            /\ config.second_try => Len(runs) = (IF runs[1] = 0 THEN 1 ELSE 2)
            /\ shell.status = runs[Len(runs)]

\* With --retry the payload failed, ran again and succeeded: status 0.
C11_Witness ==
  /\ shell.mode = "done"
  /\ config.second_try
  /\ StatusesOf("payload") = <<1, 0>>
  /\ shell.status = 0

\* C12: under wine, once the command line has run, wineserver -k was the
\* last command to run, whatever the payload or winecfg ended with; and
\* when the payload ran, the status of the command line is the payload's.
C12_WineserverKilledLast ==
  (shell.mode = "done" /\ config.with_wine)
    => /\ shell.log # <<>>
       /\ shell.log[Len(shell.log)].cmd = "wineserver -k"
       /\ Len(StatusesOf("wineserver -k")) = 1
       /\ \A runs \in {StatusesOf("payload")} :
            runs # <<>> => shell.status = runs[Len(runs)]

\* winecfg failed, the payload did not run, and wineserver -k ran.
C12_Witness ==
  /\ shell.mode = "done"
  /\ config.with_wine
  /\ StatusesOf("winecfg") = <<1>>
  /\ StatusesOf("payload") = <<>>
  /\ StatusesOf("wineserver -k") # <<>>

WinecfgStage == \E i \in DOMAIN argv : argv[i] = <<Lit("sh"), Lit("-c"), WinecfgScript>>

\* C13: the compiled command line has the winecfg stage exactly when wine is
\* used, a display is active and either --configure was given or the
\* directory of --dotwine did not exist before the build; and with the stage
\* the payload runs only after winecfg ended with 0.
C13_WinecfgStage ==
  (hist.compile = "ok")
    => /\ WinecfgStage <=> (/\ config.with_wine
                            /\ X11Active(config)
                            /\ (config.configure \/ hist.created))
       /\ (WinecfgStage /\ StatusesOf("payload") # <<>>) => StatusesOf("winecfg") = <<0>>

\* ---------------------------------------------------- the build repeated

\* C14 as the specification has it: two calls of create_bwrap_argv in a row
\* with the same configuration return the same argv groups, also when the
\* directory of --dotwine did not exist before the first call.
C14_SameArgvTwice ==
  (again.pc = "done") => again.second = again.first

WithoutWinecfg(groups) ==
  LET Other(g) == g # <<Lit("sh"), Lit("-c"), WinecfgScript>>
  IN SelectSeq(groups, Other)

\* The first call created the directory, and that alone put winecfg into
\* its command line.
WinecfgOnlyOnce ==
  /\ again.created
  /\ again.first.status = "ok"
  /\ config.with_wine
  /\ ~(X11Active(config) /\ config.configure)

\* C14: two calls of create_bwrap_argv in a row with the same configuration
\* return the same argv groups when the first call did not create the
\* directory of --dotwine; when it did, the second call returns the argv of
\* the first without the winecfg stage (the same argv when the stage is not
\* there for that reason alone).
C14_SameArgvUnlessCreated ==
  (again.pc = "done")
    => /\ again.second.status = again.first.status
       /\ again.second.argv = IF WinecfgOnlyOnce THEN WithoutWinecfg(again.first.argv)
                              ELSE again.first.argv
       /\ WinecfgOnlyOnce => again.second.argv # again.first.argv

\* The first call created the directory; the second one returns another argv.
C14_Witness ==
  /\ again.pc = "done"
  /\ again.created
  /\ again.first.status = "ok"
  /\ again.second.argv # again.first.argv
  /\ Len(again.second.argv) = Len(again.first.argv) - 1

\* ------------------------------------------------------ missing commands

NestedModes == {"nxagent", "xephyr", "xnest", "xvfb", "xpra"}

\* The command of the nested display to start is not installed.
BackendMissing ==
  config.x11 \in NestedModes /\ ~Available(CommandOf(config.x11), host)

\* C15: a missing command ends the run with exit code 127. Without the
\* command of the nested display no display process is started and bwrap
\* is never executed; without bwrap the run ends with 127 after every
\* display process it started was signalled and waited for. (Runs that a
\* KeyboardInterrupt ends exit with 130.)
C15_MissingCommandExits127 ==
  /\ BackendMissing => ~hist.spawned /\ ~hist.executed
  /\ ~Available("bwrap", host) => ~hist.executed
  /\ (pc = "done" /\ hist.interrupts = {})
       => /\ (hist.compile = "ok" /\ BackendMissing) => exit_code = 127
          /\ config.x11 = "auto" => exit_code = 127 /\ hist.compile = "none"
          /\ (hist.compile = "ok" /\ ~BackendMissing /\ ~Available("bwrap", host))
               => exit_code = 127 /\ \A n \in Spawned : Stopped(n)

\* bwrap is missing: the nested display was started, stopped again, and the
\* run has ended with 127.
C15_Witness ==
  /\ pc = "done"
  /\ ~Available("bwrap", host)
  /\ hist.ready
  /\ procs["process"].st = "ended" /\ Stopped("process")
  /\ hist.interrupts = {}
  /\ exit_code = 127

\* ------------------------------------------------------- the namespaces

\* The words of the argv that are options of bwrap: those in front of "--".
BwrapWords ==
  LET groups == SubSeq(argv, 1, DashesAt(argv) - 1)
  IN UNION { {groups[i][j] : j \in 1..Len(groups[i])} : i \in DOMAIN groups }

\* C16: every compiled argv has --unshare-all, and has --share-net exactly
\* when the configuration enables the network.
C16_ShareNetOnlyWithNetwork ==
  (argv # NoArgv)
    => \A words \in {BwrapWords} :
         /\ Lit("--unshare-all") \in words
         /\ Lit("--share-net") \in words <=> config.network

\* An argv without --share-net of a configuration with sound, a display,
\* extra binds and wine, and without the network.
C16_Witness ==
  /\ pc = "enter"
  /\ ~config.network /\ config.pulseaudio /\ config.x11 = "host"
  /\ config.extra_binds = <<TokOptRw, TokUsr2Ro>> /\ config.with_wine
  /\ argv[3] = <<Lit("--unshare-all")>>

\* ------------------------------------------------------ the extra binds

\* C17: every mount operation of the compiled argv has an absolute target,
\* and every --pass token PATH:ro or PATH:rw whose path exists has a bind
\* operation whose target is the absolute path of PATH.
C17_AbsoluteTargets ==
  (pc = "enter")
    => \A ops \in {MountOpsOf(argv)} :
         /\ \A k \in DOMAIN ops : Head(OpTarget(ops[k])) = Sep
         /\ \A i \in DOMAIN config.extra_binds :
              \A parsed \in {parse_path_colon_access(config.extra_binds[i])} :
                PathExists(parsed.path, host)
                  => \E k \in DOMAIN ops :
                       /\ ops[k][1] = (IF parsed.access = "READ_WRITE" THEN Lit("--bind")
                                       ELSE Lit("--ro-bind"))
                       /\ OpTarget(ops[k]) = AbsPath(parsed.path)

\* ------------------------------------------------------ path:mode tokens

\* The path:mode tokens of the command line.
Tokens ==
  {config.extra_binds[i] : i \in DOMAIN config.extra_binds}
    \cup (IF config.dotwine = None THEN {} ELSE {config.dotwine})

\* The token has a colon and ends in ro or rw behind its last colon.
WellFormed(token) ==
  \A pieces \in {Split(token, ":")} :
    Len(pieces) >= 2 /\ pieces[Len(pieces)] \in {ModeRo, ModeRw}

\* C18: when a path:mode token has no colon, or something else than ro or rw
\* behind its last colon, the build ends in a ValueError and the run with
\* status 1: no argv, no display process started, bwrap not executed. A
\* token that ends in :ro or :rw is split at its last colon, whatever
\* colons its path has.
C18_MalformedTokensStop ==
  /\ (\E token \in Tokens : ~WellFormed(token))
       => /\ argv = NoArgv
          /\ ~hist.spawned
          /\ ~hist.executed
          /\ hist.compile # "none"
               => /\ hist.compile = "ValueError"
                  /\ pending = "ValueError"
                  /\ pc = "done"
                  /\ exit_code = 1
  /\ \A token \in Tokens :
       \A parsed \in {parse_path_colon_access(token)} :
         /\ parsed.ok <=> WellFormed(token)
         /\ parsed.ok
              => /\ parsed.path \o <<":">>
                      \o (IF parsed.access = "READ_ONLY" THEN ModeRo ELSE ModeRw) = token
                 /\ parsed.access \in {"READ_ONLY", "READ_WRITE"}

\* A token without a colon ended a run with a nested display before the
\* display was started.
C18_Witness ==
  /\ pc = "done"
  /\ config.extra_binds = <<TokNoColon>>
  /\ config.x11 \in NestedModes /\ ~BackendMissing
  /\ hist.compile = "ValueError"
  /\ ~hist.spawned
  /\ exit_code = 1

\* ------------------------------------------------------ the display socket

DisplaySocket == get_unix_socket_for(config.x11_display_number)

BindFlags == {Lit("--ro-bind"), Lit("--bind"), Lit("--dev-bind")}

Groups == {argv[i] : i \in DOMAIN argv}

\* C19: with a display active, a missing display socket does not fail the
\* build, and the compiled argv binds the socket of the display number read
\* and write and sets DISPLAY to that number, whether the socket exists or
\* not; no other bind of the argv has a source or a target that is missing
\* on the host.
C19_DisplaySocketBound ==
  /\ (JustCompiled /\ TokensParse /\ X11Active(config))
       => \A tasks \in {MountTasks(config, host)} :
            /\ (\A j \in DOMAIN tasks :
                  (tasks[j].required /\ tasks[j].mode \in BindModes
                     /\ ~IsDisplaySocket(tasks[j]))
                    => PathExists(tasks[j].target, host))
                 => hist.compile = "ok"
            /\ hist.compile = "ok"
                 => /\ <<Lit("--bind"), DisplaySocket, DisplaySocket>> \in Groups
                    /\ <<Lit("--setenv"), VarDISPLAY,
                         <<":">> \o IntToStr(config.x11_display_number)>> \in Groups
  /\ (pc = "enter")
       => \A ops \in {MountOpsOf(argv)} :
            \A k \in DOMAIN ops :
              (ops[k][1] \in BindFlags
                 /\ (~PathExists(ops[k][2], host) \/ ~PathExists(ops[k][3], host)))
                => X11Active(config) /\ ops[k][3] = DisplaySocket

\* The socket of a nested display that is not started yet is bound.
C19_Witness ==
  /\ pc = "enter"
  /\ config.x11 \in NestedModes
  /\ ~PathExists(DisplaySocket, host)
  /\ <<Lit("--bind"), DisplaySocket, DisplaySocket>> \in Groups

\* ------------------------------------------------- nested mount targets

\* The shallower target followed by a separator is a prefix of the deeper.
PrefixNested(deeper, shallower) == StartsWith(deeper, shallower \o <<Sep>>)

\* C20: of two mount operations of the compiled argv of which one has its
\* target nested under the target of the other, the one with the shallower
\* target comes first.
C20_ShallowBeforeDeep ==
  \A ops \in {MountOpsOf(argv)} :
    \A i, j \in DOMAIN ops :
      PrefixNested(OpTarget(ops[j]), OpTarget(ops[i])) => i < j

\* /opt and /opt/rel were passed deeper first, /dev/dri is below /dev, and
\* the argv has them shallower first.
C20_Witness ==
  /\ pc = "enter"
  /\ config.extra_binds = <<TokOptRelRo, TokOptRw>>
  /\ \E i, j \in DOMAIN argv :
       /\ i < j
       /\ argv[i] = <<Lit("--bind"), POpt, POpt>>
       /\ argv[j] = <<Lit("--ro-bind"), POptRel, POptRel>>

\* ------------------------------------------------- the PATH of the sandbox

\* The entries of the PATH the sandbox is given.
SandboxPathEntries ==
  LET entries == Split(SandboxPath, PathSep)
  IN {entries[i] : i \in {j \in DOMAIN entries : entries[j] # <<>>}}

\* The mount operations of the compiled argv whose target is the entry or a
\* directory above it.
OpsAbove(entry) ==
  LET ops == MountOpsOf(argv)
  IN {ops[i] : i \in {j \in DOMAIN ops : TargetContains(OpTarget(ops[j]), entry)}}

\* C21: every entry of the sandbox's PATH lies under the target of a bind
\* operation of the compiled argv, and no tmpfs operation of the argv has a
\* target that is deeper than that bind and still above the entry.
C21_PathEntriesMounted ==
  (pc = "enter")
    => \A entry \in SandboxPathEntries :
         \E b \in OpsAbove(entry) :
           /\ b[1] \in BindFlags
           /\ \A o \in OpsAbove(entry) :
                o[1] = Lit("--tmpfs") => ~PrefixNested(OpTarget(o), RStrip(OpTarget(b), Sep))

\* The tasks in the order of line 396.
SortedTasks == SortedMountTasks(MountTasks(config, host))

\* The resolved candidates of the host's PATH (lines 436 and 439).
Candidates ==
  LET candidate_paths == Split(host.env[VarPATH], PathSep)
  IN {RealPath(candidate_paths[i], host.links) : i \in DOMAIN candidate_paths}

\* C22: a candidate of the search path is kept exactly when the first task,
\* in descending order of the targets, whose target contains the candidate
\* is a bind task; tasks behind that first match decide nothing.
C22_FirstMatchDecides ==
  (pc = "enter")
    => \A tasks \in {SortedTasks} :
         \A candidate_path \in Candidates :
           LET matches == {i \in DOMAIN tasks :
                             TargetContains(tasks[i].target, candidate_path)}
               first == CHOOSE i \in matches : \A j \in matches : j <= i
           IN (candidate_path \in SandboxPathEntries)
                <=> (matches # {} /\ tasks[first].mode \in BindModes)

\* --------------------------------------------------------- concurrent runs

C26_ServerNeverOutlives ==
  (pc = "done" /\ ctx = "XpraContext" /\ procs["server"].st # "unset")
    => /\ procs["server"].sent = <<"SIGTERM">>
       /\ procs["server"].waits = 1
       /\ procs["server"].st = "ended"

\* C27: __exit__ of the xpra backend sends SIGTERM to the client and waits
\* for it, then sends SIGTERM to the server and waits for it, and removes
\* the temporary directory when both have ended; the simple backends are
\* sent SIGINT and waited for.
C27_ShutdownOrder ==
  /\ ctx = "XpraContext"
       => /\ \A n \in {"client", "server"} :
               \A i \in DOMAIN procs[n].sent : procs[n].sent[i] = "SIGTERM"
          /\ procs["server"].sent # <<>>
               => /\ procs["client"].sent = <<"SIGTERM">>
                  /\ procs["client"].waits = 1
                  /\ procs["client"].st = "ended"
          /\ tempdir = "removed"
               => \A n \in {"client", "server"} :
                    /\ procs[n].sent = <<"SIGTERM">>
                    /\ procs[n].waits = 1
                    /\ procs[n].st = "ended"
  /\ ctx \in {"X11Context", "_SimpleX11Context"}
       => /\ \A i \in DOMAIN procs["process"].sent : procs["process"].sent[i] = "SIGINT"
          /\ (pc \in {"leave", "done"} /\ procs["process"].sent # <<>>
                /\ "exit" \notin hist.interrupts)
               => procs["process"].waits = 1 /\ procs["process"].st = "ended"

\* A run with the xpra backend at its exit: both processes stopped and the
\* temporary directory removed.
C27_Witness ==
  /\ pc = "done"
  /\ ctx = "XpraContext"
  /\ tempdir = "removed"
  /\ procs["client"].waits = 1
  /\ procs["server"].waits = 1
  /\ hist.executed

\* A run with a simple backend at its exit, the backend stopped.
C27_WitnessSimple ==
  /\ pc = "done"
  /\ ctx = "_SimpleX11Context"
  /\ procs["process"].sent = <<"SIGINT">>
  /\ procs["process"].waits = 1

\* ------------------------------------------------------ builds that abort

\* C24: create_bwrap_argv ends in sys.exit(1) only when the source of some
\* required bind task does not exist on the host; a target that does not
\* exist on the host does not fail the build.
C24_AbortOnlyOnMissingSource ==
  (JustCompiled /\ TokensParse /\ hist.compile = "exit1")
    => \A tasks \in {MountTasks(config, host)} :
         \E i \in DOMAIN tasks :
           /\ tasks[i].required
           /\ tasks[i].mode \in BindModes
           /\ ~IsDisplaySocket(tasks[i])
           /\ ~PathExists(SourceOf(tasks[i]), host)

\* C25: a build that ends in the ValueError of a malformed token or in
\* sys.exit(1) has not created the directory of --dotwine.
C25_AbortLeavesHostUnchanged ==
  (pc = "done" /\ hist.compile \in {"exit1", "ValueError"}) => ~hist.created

\* ------------------------------------------------ the allocator's result

\* The candidates of the allocator that no socket uses.
CandidatesLeft ==
  LET used == used_displays(host)
  IN ((0..Cardinality(used)) \cup {alloc.minimum}) \ used

\* C28: for every set of display sockets and every minimum the allocator has
\* a candidate that no socket uses, and the number it returns is such a
\* candidate: it is the number of no socket that was there at the scan.
C28_ResultUnused ==
  (alloc.by # "none")
    => /\ CandidatesLeft # {}
       /\ alloc.result \in CandidatesLeft
       /\ alloc.result \notin used_displays(host)

\* The allocator called with a minimum that is in use, with other sockets
\* around.
C28_Witness ==
  /\ alloc.by = "find_unused"
  /\ alloc.minimum \in used_displays(host)
  /\ Cardinality(used_displays(host)) >= 2
  /\ alloc.result \notin used_displays(host)

\* ------------------------------------------- the environment of the sandbox

\* The names create_bwrap_argv may set in the sandbox.
EnvNames(cfg) ==
  {VarHOME, VarTERM, VarUSER, VarWINEDEBUG, VarPATH}
    \cup (IF cfg.pulseaudio THEN {VarPULSE} ELSE {})
    \cup (IF X11Active(cfg) THEN {VarDISPLAY} ELSE {})

\* The positions of the --setenv groups of an argv.
SetenvAt(groups) == {i \in DOMAIN groups : groups[i][1] = Lit("--setenv")}

\* --clearenv comes before every --setenv, the names set are in strictly
\* ascending order (so none is set twice) and are names of the fixed set.
EnvWellFormed(groups) ==
  /\ \E c \in DOMAIN groups :
       /\ groups[c] = <<Lit("--clearenv")>>
       /\ \A i \in SetenvAt(groups) : c < i
  /\ \A i, j \in SetenvAt(groups) : i < j => StrLess(groups[i][2], groups[j][2])
  /\ \A i \in SetenvAt(groups) :
       /\ Len(groups[i]) = 3
       /\ groups[i][2] \in EnvNames(config)
       /\ i < DashesAt(groups)

\* C29: the compiled argv clears the environment before it sets anything,
\* sets each variable at most once in ascending order of the names, sets no
\* name outside HOME, TERM, USER, WINEDEBUG, PATH, PULSE_SERVER (with sound
\* only) and DISPLAY (with a display only), and is the same argv in two
\* host environments that differ in another variable only.
C29_EnvironmentFromFixedNames ==
  (again.pc = "environments")
    => /\ again.second = again.first
       /\ again.first.status = "ok" => EnvWellFormed(again.first.argv)

\* A build with sound and the host's display, in two environments.
C29_Witness ==
  /\ again.pc = "environments"
  /\ again.first.status = "ok"
  /\ config.pulseaudio
  /\ config.x11 = "host"
  /\ Cardinality(SetenvAt(again.second.argv)) = 6
====
